---- MODULE Spec2Model ----
(***************************************************************************)
(* A model of the request pipeline of github.com/maxbolgarin/cliex:        *)
(*   HTTP.request   the retry executor (first dispatch, retry loop)        *)
(*   HTTP.Request   the per-URL circuit breaker wrapper around it          *)
(*   HTTPSet        the fan-out over several clients and its broken set    *)
(* The transport (resty) is the environment: each invocation fails or      *)
(* succeeds as the run's transport plan says, with an error of any kind.   *)
(***************************************************************************)
EXTENDS Integers, Sequences, FiniteSets, TLC

(***************************************************************************)
(* Bounds of the model.                                                    *)
(***************************************************************************)
\* largest RequestOpts.RetryCount a caller passes
MaxRetryCount == 3
\* longest run of failures of a transport that later succeeds
MaxFail == 3
\* transport invocations of one run after which the model stops retrying
\* (reached only with InfiniteRetry)
MaxCalls == 4
\* Request calls started on the client of the breaker specification
MaxReqs == 3
\* largest Config.CircuitBreakerFailures of the breaker specification
MaxF == 2
\* clients of the largest HTTPSet
MaxClients == 3
\* longest RetryWaitTime and RetryMaxWaitTime a caller sets, in seconds
MaxWait == 11
\* the clients of an aggregator that grows or is cleared by hand
MaxSet == 2

(***************************************************************************)
(* Program constants.                                                      *)
(***************************************************************************)
\* math.MaxInt, the retry bound of InfiniteRetry, as far as TLC's integers go
MaxInt == 2147483647
defaultCircuitBreakerFailures == 5
\* gobreaker's MaxRequests when Settings.MaxRequests is 0, as cliex leaves it
maxRequests == 1
\* the backoff defaults, in seconds
defaultWaitTime == 1
defaultMaxWaitTime == 10

(***************************************************************************)
(* Texts.  Go strings are sequences of characters, so that HasPrefix and   *)
(* Contains are computed and not assumed.                                  *)
(***************************************************************************)
S_http == <<"h","t","t","p">>
S_scheme == <<"h","t","t","p",":","/","/">>
S_code5 == <<"c","o","d","e"," ","5">>
S_ErrInternalServerError ==
  <<"c","o","d","e"," ","5","0","0",","," ","i","n","t","e","r","n","a","l",
    " ","s","e","r","v","e","r"," ","e","r","r","o","r">>
S_ErrBadRequest ==
  <<"c","o","d","e"," ","4","0","0",","," ","b","a","d"," ","r","e","q","u","e","s","t">>
S_refused == <<"c","o","n","n","e","c","t","i","o","n"," ","r","e","f","u","s","e","d">>
S_colon == <<":"," ">>

\* the client's BaseURL in the specifications that set one, and the URLs asked for
BaseSrv == <<"h","t","t","p",":","/","/","s",".","i","o">>
\* the BaseURL of another server, and a BaseURL without scheme
BaseAlt == <<"h","t","t","p",":","/","/","t",".","i","o">>
BaseBad == <<"s",".","i","o">>
U_error == <<"/","e","r","r","o","r">>
U_ok == <<"/","o","k">>
URLs == {U_error, U_ok}
\* two spellings of one address, for a client without BaseURL
U_bare == <<"s",".","i","o","/","x">>
U_full == <<"h","t","t","p",":","/","/","s",".","i","o","/","x">>
Spellings == {U_bare, U_full}
\* every url argument a Request is given
Keys == URLs \cup Spellings

HasPrefix(s, prefix) ==
  /\ Len(prefix) <= Len(s)
  /\ SubSeq(s, 1, Len(prefix)) = prefix

Contains(s, substr) ==
  \E i \in 1..(Len(s) - Len(substr) + 1) : SubSeq(s, i, i + Len(substr) - 1) = substr

(***************************************************************************)
(* Transport errors.  errorHandler turns a response of status >= 400 into  *)
(* the error of ErrorMapping, followed by ": " and the body when there is  *)
(* one; a failed round trip is an error of the network.                    *)
(***************************************************************************)
TransportErrs == {"e500", "e400", "e400body", "net"}

ErrorText(e) ==
  CASE e = "e500" -> S_ErrInternalServerError
    [] e = "e400" -> S_ErrBadRequest
    [] e = "e400body" -> S_ErrBadRequest \o S_colon \o S_code5
    [] e = "net" -> S_refused
    [] OTHER -> <<>>

\* the status code of the response behind the error, 0 when there was none
StatusOf(e) ==
  CASE e = "e500" -> 500
    [] e \in {"e400", "e400body"} -> 400
    [] OTHER -> 0

IsServerError(err) == err /= "nil" /\ Contains(ErrorText(err), S_code5)

prepareURL(base, url) ==
  IF base = <<>> /\ ~HasPrefix(url, S_http) THEN S_scheme \o url ELSE url

(***************************************************************************)
(* State.                                                                  *)
(***************************************************************************)
\* goroutines: those of the direct callers and of the units of set caller 1,
\* then those of the units of a second set caller
Procs == 1..(MaxClients + MaxSet)
\* the callers of HTTPSet.Request; the second acts only where calls overlap
SetCallers == {1, 2}
\* contexts: the run of a direct call by p has context p, set caller s has SetCtx(s)
SetCtx(s) == MaxClients + MaxSet + s
Ctxs == Procs \cup {SetCtx(s) : s \in SetCallers}

VARIABLES
  clients,   \* the HTTP clients; the Go index i is position i + 1
  breakers,  \* every gobreaker.CircuitBreaker created so far, by <<key, creator>>
  rq,        \* rq[p]: the run of HTTP.Request that goroutine p executes
  ctxDone,   \* ctxDone[x]: context x has been cancelled
  started,   \* Request calls started so far on clients with a breaker
  streak,    \* streak[u]: failed Request calls to u in a row, none overlapping
  everFailed,\* URLs some dispatched Request to which has failed
  broken,    \* HTTPSet.broken, shared by the set and its UseBroken views
  hasView,   \* UseBroken has returned a view
  ubRet,     \* what the caller's last UseBroken() returned
  sc,        \* sc[s]: the HTTPSet.Request or HTTPSet.Send call of caller s
  cap,       \* cap(c.clients) of the set: the room of the array behind the slice
  view,      \* the clients slice of the UseBroken view the caller holds
  addRet,    \* what the caller's last Add returned
  del,       \* the last DeleteBroken, its loop index, and what followed it
  hist       \* hist[i]: how the most recent request dispatched to index i ended

\* what only Add, UseBroken and DeleteBroken write
aggVars == <<cap, view, addRet, del>>
vars == <<clients, breakers, rq, ctxDone, started, streak, everFailed, broken, hasView,
          ubRet, sc, cap, view, addRet, del, hist>>

\* RequestOpts: Method is the HTTP method ("": unset, a GET), Body is the
\* body of the request and Result the sink the response is parsed into
\* (0: nil), the wait times are in seconds (0: unset)
ZeroOpts ==
  [Method |-> "", RetryCount |-> 0, InfiniteRetry |-> FALSE, RetryOnlyServerErrors |-> FALSE,
   Body |-> 0, Result |-> 0, RetryWaitTime |-> 0, RetryMaxWaitTime |-> 0]
NoRes == [tag |-> "none", errs |-> <<>>]
\* the transport of a run: it fails the first plan.fails invocations (Always:
\* every one) with errors among plan.kinds, and succeeds afterwards
Always == 0 - 1
NoPlan == [fails |-> 0, kinds |-> {}]

\* no breaker: a failed lookup, and the run of a client without breaker
NoCB == <<>>

Min(a, b) == IF a < b THEN a ELSE b

(***************************************************************************)
(* Config.prepareAndValidate and NewWithConfig.                            *)
(***************************************************************************)
Lower == {"a","b","c","d","e","f","g","h","i","j","k","l","m","n","o","p","q","r","s",
          "t","u","v","w","x","y","z"}
Upper == {"A","B","C","D","E","F","G","H","I","J","K","L","M","N","O","P","Q","R","S",
          "T","U","V","W","X","Y","Z"}
Digit == {"0","1","2","3","4","5","6","7","8","9"}
\* the character classes of HTTPAddressRegexp: host, suffix and path
HostChars == Lower \cup Upper \cup Digit \cup {"-","@",":","%",".","_","+","~","#","="}
SuffixChars == Lower \cup Upper \cup Digit \cup {"(",")"}
PathChars == HostChars \cup {"(",")","?","&","/"}
S_https == <<"h","t","t","p","s",":","/","/">>
S_www == <<"w","w","w",".">>

AllIn(s, C) == \A i \in 1..Len(s) : s[i] \in C
From(s, i) == SubSeq(s, i, Len(s))

\* [-a-zA-Z0-9@:%._\+~#=]{1,256}(\.|:)[a-zA-Z0-9()]{1,5}|:[0-9]{2,5}
MatchHost(a) ==
  \/ \E j \in 1..Min(Len(a) - 2, 256) :
       /\ AllIn(SubSeq(a, 1, j), HostChars)
       /\ a[j + 1] \in {".", ":"}
       /\ Len(a) - (j + 1) \in 1..5
       /\ AllIn(From(a, j + 2), SuffixChars)
  \/ /\ Len(a) \in 3..6
     /\ a[1] = ":"
     /\ AllIn(Tail(a), Digit)
\* (/[-a-zA-Z0-9()@:%_\+.~#?&//=]*)*
MatchPath(q) == q = <<>> \/ (q[1] = "/" /\ AllIn(q, PathChars))
MatchRest(r) ==
  \E k \in 0..Len(r) : MatchHost(SubSeq(r, 1, k)) /\ MatchPath(From(r, k + 1))
\* HTTPAddressRegexp.MatchString(s): ^https?:\/\/(www\.)?( host )( path )*$
HTTPAddressRegexp(s) ==
  \E r \in (IF HasPrefix(s, S_scheme) THEN {From(s, Len(S_scheme) + 1)} ELSE {})
           \cup (IF HasPrefix(s, S_https) THEN {From(s, Len(S_https) + 1)} ELSE {}) :
    \/ MatchRest(r)
    \/ HasPrefix(r, S_www) /\ MatchRest(From(r, Len(S_www) + 1))

\* a Config; the configurations of the model name no proxy and no key pair
Config(cb, base, failures) ==
  [CircuitBreaker |-> cb, BaseURL |-> base, CircuitBreakerFailures |-> failures,
   ProxyAddress |-> <<>>, ClientCertFile |-> <<>>, ClientKeyFile |-> <<>>]

\* cfg.prepareAndValidate(): the error, and the configuration with the
\* defaults of the breaker settings
prepareAndValidate(cfg) ==
  [err |-> IF cfg.BaseURL /= <<>> /\ ~HTTPAddressRegexp(cfg.BaseURL)
           THEN "invalid base url"
           ELSE IF cfg.ProxyAddress /= <<>> /\ ~HTTPAddressRegexp(cfg.ProxyAddress)
           THEN "invalid proxy address"
           ELSE IF cfg.ClientCertFile /= <<>> /\ cfg.ClientKeyFile = <<>>
           THEN "client key file is empty"
           ELSE IF cfg.ClientKeyFile /= <<>> /\ cfg.ClientCertFile = <<>>
           THEN "client cert file is empty"
           ELSE "nil",
   cfg |-> [cfg EXCEPT !.CircuitBreakerFailures =
              IF @ = 0 THEN defaultCircuitBreakerFailures ELSE @]]

\* NewWithConfig(cfg): the error of the validation, or HTTP with an empty
\* registry
NewWithConfig(cfg) ==
  LET v == prepareAndValidate(cfg) IN
  [err |-> v.err,
   cli |-> [enableCB |-> v.cfg.CircuitBreaker, baseURL |-> v.cfg.BaseURL,
            cbFailures |-> v.cfg.CircuitBreakerFailures, cbs |-> [u \in Keys |-> NoCB],
            address |-> <<>>]]

\* NewWithAddress(address) of the revision that has Send: the address is
\* kept, and is the BaseURL (lang.Check(cfg.BaseURL, cfg.Address))
NewWithAddress(address) ==
  [NewWithConfig(Config(FALSE, address, 0)).cli EXCEPT !.address = address]

\* a run: view says that client cli is the one the UseBroken view lists
IdleRun ==
  [pc |-> "idle", view |-> FALSE, cli |-> 0, ctx |-> 0, url |-> <<>>, target |-> <<>>, opts |-> ZeroOpts,
   plan |-> NoPlan, cb |-> NoCB, gen |-> 0, rc |-> 0, retry |-> 0, errs |-> <<>>,
   calls |-> 0, waits |-> 0, seen |-> <<>>, overlap |-> FALSE, res |-> NoRes,
   wmin |-> 0, wmax |-> 0, sleep |-> 0, body |-> 0, wrote |-> 0]

InProgress(p) == rq[p].pc \notin {"idle", "done"}

\* c.clients of the set, or of the UseBroken view, and the client of a run
Clients(v) == IF v THEN view.clients ELSE clients
ClientOf(run) == Clients(run.view)[run.cli + 1]

\* the locals of HTTPSet.Request: the aggregator's mode, the arguments, the
\* loop index, fs (0: nil), and what was collected; before is the broken
\* set at the call
\* no UseBroken() result is held
NoRet == [called |-> FALSE, isNil |-> TRUE, ok |-> FALSE, useBroken |-> FALSE]

\* no UseBroken view is held, no Add and no DeleteBroken has been called,
\* and the history that is not kept
NoView == [clients |-> <<>>, cap |-> 0, shared |-> FALSE]
NoAdd == [called |-> FALSE, onView |-> FALSE, cfgs |-> <<>>, n |-> 0, isNil |-> TRUE,
          at |-> 0, err |-> "nil"]
NoDel == [stage |-> "none", indxs |-> <<>>, before |-> {}, i |-> 0, alone |-> TRUE]
NoHist == <<>>

IdleCall ==
  [pc |-> "idle", send |-> FALSE, useBroken |-> FALSE, url |-> <<>>, opts |-> ZeroOpts,
   requestBody |-> 0, n |-> 0,
   i |-> 0, fs |-> <<>>, resps |-> <<>>, errs |-> <<>>, before |-> {},
   ret |-> [resps |-> <<>>, err |-> [isNil |-> TRUE, errs |-> <<>>]]]

(***************************************************************************)
(* gobreaker.CircuitBreaker with Interval = 0 and MaxRequests = 1.  The    *)
(* clock is abstracted: expired says that the open breaker's expiry lies   *)
(* before now.                                                             *)
(***************************************************************************)
ZeroCounts == [Requests |-> 0, ConsecutiveSuccesses |-> 0, ConsecutiveFailures |-> 0]

NewCircuitBreaker(key) ==
  [state |-> "closed", generation |-> 0, counts |-> ZeroCounts, expired |-> FALSE,
   key |-> key]

MutReadyToTrip(counts, failures) == counts.ConsecutiveFailures > failures

MutReadyToTripEarly(counts, failures) == counts.ConsecutiveFailures + 1 >= failures

ReadyToTrip(counts, failures) == counts.ConsecutiveFailures >= failures

toNewGeneration(b) ==
  [b EXCEPT !.generation = @ + 1, !.counts = ZeroCounts, !.expired = FALSE]

setState(b, s) == IF b.state = s THEN b ELSE toNewGeneration([b EXCEPT !.state = s])

currentState(b) ==
  IF b.state = "open" /\ b.expired THEN setState(b, "half-open") ELSE b

\* the breaker after beforeRequest, and the error it returns ("nil": admitted)
beforeRequest(b) ==
  LET c == currentState(b) IN
  IF c.state = "open" THEN [cb |-> c, err |-> "open"]
  ELSE IF c.state = "half-open" /\ c.counts.Requests >= maxRequests
       THEN [cb |-> c, err |-> "toomany"]
  ELSE [cb |-> [c EXCEPT !.counts.Requests = @ + 1], err |-> "nil"]

onSuccess(c) ==
  LET d == [c EXCEPT !.counts.ConsecutiveSuccesses = @ + 1,
                     !.counts.ConsecutiveFailures = 0] IN
  CASE c.state = "closed" -> d
    [] c.state = "half-open" ->
         IF d.counts.ConsecutiveSuccesses >= maxRequests THEN setState(d, "closed") ELSE d
    [] OTHER -> c

onFailure(c, failures) ==
  LET d == [c EXCEPT !.counts.ConsecutiveFailures = @ + 1,
                     !.counts.ConsecutiveSuccesses = 0] IN
  CASE c.state = "closed" -> IF ReadyToTrip(d.counts, failures) THEN setState(d, "open") ELSE d
    [] c.state = "half-open" -> setState(c, "open")
    [] OTHER -> c

afterRequest(b, before, success, failures) ==
  LET c == currentState(b) IN
  IF c.generation /= before THEN c
  ELSE IF success THEN onSuccess(c) ELSE onFailure(c, failures)

(***************************************************************************)
(* HTTP.Request and HTTP.request, one action per atomic step of the run.   *)
(***************************************************************************)
\* the bookkeeping of a Request call to u that returned: run is its last state
Returned(run) ==
  LET u == run.url
      failed == run.res.tag /= "ok" IN
  IF ClientOf(run).enableCB
  THEN /\ streak' = [streak EXCEPT ![u] =
                       IF run.overlap \/ ~failed THEN 0 ELSE Min(@ + 1, MaxF + 1)]
       /\ everFailed' = IF failed /\ run.calls > 0 THEN everFailed \cup {u} ELSE everFailed
  ELSE UNCHANGED <<streak, everFailed>>

\* Request goes through a breaker: if !c.enableCB it calls request() directly
MutUsesBreakerAlways(cl) == TRUE

UsesBreaker(cl) == cl.enableCB

\* what cb.Execute records for the function it ran: success iff the error
\* that request() returned is nil
MutRecordedFirstAttempt(run) == run.seen = <<>>

MutRecordedCancelSucceeds(run) == run.res.tag \in {"ok", "canceled"}

Recorded(run) == run.res.tag = "ok"

\* request() returns run.res: cb.Execute records it and Request returns it
Finish(p, run) ==
  /\ rq' = [rq EXCEPT ![p] = [run EXCEPT !.pc = "done"]]
  /\ IF UsesBreaker(ClientOf(run))
     THEN breakers' = [breakers EXCEPT ![run.cb] =
            afterRequest(@, run.gen, Recorded(run), ClientOf(run).cbFailures)]
     ELSE UNCHANGED breakers
  /\ Returned(run)
  /\ hist' = [i \in DOMAIN hist |->
               IF i = run.cli THEN (IF run.res.tag = "ok" THEN "ok" ELSE "failed")
               ELSE hist[i]]
  /\ UNCHANGED <<clients, ctxDone, started, broken, hasView, ubRet, sc, aggVars>>

\* the registry key of a Request: the url argument as passed
MutBreakerKeyShared(url) == U_error

BreakerKey(url) == url

\* the run HTTP.Request(ctx, u, o) starts on client c, up to cbs.Lookup(u)
StartRun(v, c, x, u, o, k, overlapped) ==
  LET cl == Clients(v)[c + 1]
      found == cl.cbs[BreakerKey(u)] IN
  [IdleRun EXCEPT !.view = v, !.cli = c, !.ctx = x, !.url = u, !.opts = o, !.plan = k,
                  !.overlap = overlapped,
                  !.cb = IF UsesBreaker(cl) THEN found ELSE NoCB,
                  !.pc = IF ~UsesBreaker(cl) THEN "dispatch"
                         ELSE IF found /= NoCB THEN "before" ELSE "create"]

\* goroutine p calls Request(ctx, u, o) on client c and meets transport k;
\* max bounds the calls started on a client with breaker
RequestWithin(p, c, u, o, k, max) ==
  LET cl == clients[c + 1]
      others == {q \in Procs \ {p} : InProgress(q) /\ rq[q].cli = c /\ rq[q].url = u} IN
  /\ rq[p].pc \in {"idle", "done"}
  /\ cl.enableCB => started < max
  /\ rq' = [q \in Procs |->
              IF q = p THEN StartRun(FALSE, c, p, u, o, k, others /= {})
              ELSE IF q \in others THEN [rq[q] EXCEPT !.overlap = TRUE]
              ELSE rq[q]]
  /\ ctxDone' = [ctxDone EXCEPT ![p] = FALSE]
  /\ started' = IF cl.enableCB THEN started + 1 ELSE started
  /\ UNCHANGED <<clients, breakers, streak, everFailed, broken, hasView, ubRet, sc, aggVars, hist>>

Request(p, c, u, o, k) == RequestWithin(p, c, u, o, k, MaxReqs)

\* the lookup missed: gobreaker.NewCircuitBreaker, then cbs.Set(url, cb)
CreateBreaker(p) ==
  LET run == rq[p]
      id == <<BreakerKey(run.url), p>> IN
  /\ run.pc = "create"
  /\ breakers' = (id :> NewCircuitBreaker(BreakerKey(run.url))) @@ breakers
  /\ clients' = [clients EXCEPT ![run.cli + 1].cbs[BreakerKey(run.url)] = id]
  /\ rq' = [rq EXCEPT ![p].cb = id, ![p].pc = "before"]
  /\ UNCHANGED <<ctxDone, started, streak, everFailed, broken, hasView, ubRet, sc, aggVars, hist>>

\* cb.Execute, up to the call of request(): admitted or rejected
MutBeforeRequestUngated(p) ==
  LET run == rq[p]
      r == beforeRequest(breakers[run.cb]) IN
  /\ run.pc = "before"
  /\ breakers' = [breakers EXCEPT ![run.cb] = r.cb]
  /\ rq' = [rq EXCEPT ![p].pc = "dispatch", ![p].gen = r.cb.generation]
  /\ UNCHANGED <<clients, ctxDone, started, streak, everFailed, broken, hasView, ubRet, sc, aggVars, hist>>

BeforeRequest(p) ==
  LET run == rq[p]
      r == beforeRequest(breakers[run.cb]) IN
  /\ run.pc = "before"
  /\ breakers' = [breakers EXCEPT ![run.cb] = r.cb]
  /\ IF r.err = "nil"
     THEN /\ rq' = [rq EXCEPT ![p].pc = "dispatch", ![p].gen = r.cb.generation]
          /\ UNCHANGED <<streak, everFailed>>
     ELSE LET rej == [run EXCEPT !.pc = "done", !.res = [tag |-> r.err, errs |-> <<>>]] IN
          /\ rq' = [rq EXCEPT ![p] = rej]
          /\ Returned(rej)
  /\ UNCHANGED <<clients, ctxDone, started, broken, hasView, ubRet, sc, aggVars, hist>>

\* whether the transport fails the invocation that follows n earlier ones
TransportFails(run, n) == run.plan.fails = Always \/ n < run.plan.fails

\* the test of the retry loop: for retry := 1; retry < opts.RetryCount; retry++
MutLoopShort(retry, rc) == retry + 1 < rc

MutLoopLong(retry, rc) == retry <= rc

LoopContinues(retry, rc) == retry < rc

\* the switch after the first dispatch failed with e: no retry at all
MutNoRetryCountOnly(opts, e) == opts.RetryCount = 0 /\ ~opts.InfiniteRetry

NoRetry(opts, e) ==
  \/ opts.RetryCount = 0 /\ ~opts.InfiniteRetry
  \/ opts.RetryOnlyServerErrors /\ ~IsServerError(e)

\* opts.RetryCount = lang.If(opts.InfiniteRetry, math.MaxInt, opts.RetryCount)
MutRetryCountAsGiven(opts) == opts.RetryCount

EffectiveRetryCount(opts) == IF opts.InfiniteRetry THEN MaxInt ELSE opts.RetryCount

\* lang.Check(v, d): d for the zero value
Check(v, d) == IF v = 0 THEN d ELSE v

\* math.Pow(2, n)
RECURSIVE Pow2(_)
Pow2(n) == IF n <= 0 THEN 1 ELSE 2 * Pow2(n - 1)

\* getSleepTime(retry, min, max): rand.Float64() in [0, 1) spreads the wait
\* over [min, min * 2^retry), then the clamp to max; every whole-second draw
getSleepTime(retry, min, max) ==
  LET base == min * Pow2(retry)
      drawn == IF base > min THEN min..(base - 1)
               ELSE IF base = min THEN {min}
               ELSE (base + 1)..min IN
  {IF v > max THEN max ELSE v : v \in drawn}

\* the first sender(url) and what follows it up to the first backoff wait
Dispatch(p) ==
  LET run == rq[p]
      sent == [run EXCEPT !.target = prepareURL(ClientOf(run).baseURL, run.url),
                          !.body = run.opts.Body, !.calls = 1] IN
  /\ run.pc = "dispatch"
  /\ IF ~TransportFails(run, 0)
     THEN Finish(p, [sent EXCEPT !.wrote = run.opts.Result,
                                 !.res = [tag |-> "ok", errs |-> <<>>]])
     ELSE \E e \in run.plan.kinds :
            LET failed == [sent EXCEPT !.seen = <<e>>] IN
            IF NoRetry(run.opts, e)
            THEN Finish(p, [failed EXCEPT !.res = [tag |-> "failed", errs |-> <<e>>]])
            ELSE LET rc == EffectiveRetryCount(run.opts)
                     loop == [failed EXCEPT
                                !.rc = rc, !.retry = 1, !.errs = <<>>,
                                !.wmin = Check(run.opts.RetryWaitTime, defaultWaitTime),
                                !.wmax = Check(run.opts.RetryMaxWaitTime, defaultMaxWaitTime)] IN
                 IF LoopContinues(loop.retry, rc)
                 THEN /\ \E t \in getSleepTime(loop.retry, loop.wmin, loop.wmax) :
                           rq' = [rq EXCEPT ![p] = [loop EXCEPT !.pc = "wait", !.waits = 1,
                                                                !.sleep = t]]
                      /\ UNCHANGED <<clients, breakers, ctxDone, started, streak, everFailed, broken, hasView, ubRet, sc, aggVars, hist>>
                 ELSE Finish(p, [loop EXCEPT !.res = [tag |-> "exhausted", errs |-> <<>>]])

\* the select took the timer: sender(url) again, then retry++ and the loop test
RetryAttempt(p) ==
  LET run == rq[p]
      sent == [run EXCEPT !.calls = @ + 1] IN
  /\ run.pc = "wait"
  /\ run.calls < MaxCalls
  /\ IF ~TransportFails(run, run.calls)
     THEN Finish(p, [sent EXCEPT !.wrote = run.opts.Result,
                                 !.res = [tag |-> "ok", errs |-> <<>>]])
     ELSE \E e \in run.plan.kinds :
            LET failed == [sent EXCEPT !.seen = Append(@, e), !.errs = Append(@, e),
                                       !.retry = @ + 1] IN
            IF LoopContinues(failed.retry, failed.rc)
            THEN /\ \E t \in getSleepTime(failed.retry, failed.wmin, failed.wmax) :
                      rq' = [rq EXCEPT ![p] = [failed EXCEPT !.waits = @ + 1, !.sleep = t]]
                 /\ UNCHANGED <<clients, breakers, ctxDone, started, streak, everFailed, broken, hasView, ubRet, sc, aggVars, hist>>
            ELSE Finish(p, [failed EXCEPT !.res = [tag |-> "exhausted", errs |-> failed.errs]])

\* the select took ctx.Done()
MutCanceledIgnored(p) ==
  /\ rq[p].pc = "wait"
  /\ ctxDone[rq[p].ctx]
  /\ UNCHANGED vars

Canceled(p) ==
  /\ rq[p].pc = "wait"
  /\ ctxDone[rq[p].ctx]
  /\ Finish(p, [rq[p] EXCEPT !.res = [tag |-> "canceled", errs |-> rq[p].errs]])

\* the caller cancels the context of a run in progress
Cancel(p) ==
  /\ InProgress(p)
  /\ rq[p].ctx = p
  /\ ~ctxDone[p]
  /\ ctxDone' = [ctxDone EXCEPT ![p] = TRUE]
  /\ UNCHANGED <<clients, breakers, rq, started, streak, everFailed, broken, hasView, ubRet, sc, aggVars, hist>>

\* the caller drops the result it got
Return(p) ==
  /\ rq[p].pc = "done"
  /\ rq' = [rq EXCEPT ![p] = IdleRun]
  /\ UNCHANGED <<clients, breakers, ctxDone, started, streak, everFailed, broken, hasView, ubRet, sc, aggVars, hist>>

\* the expiry of open breaker i passes
TimerExpire(i) ==
  /\ breakers[i].state = "open"
  /\ ~breakers[i].expired
  /\ breakers' = [breakers EXCEPT ![i].expired = TRUE]
  /\ UNCHANGED <<clients, rq, ctxDone, started, streak, everFailed, broken, hasView, ubRet, sc, aggVars, hist>>

(***************************************************************************)
(* HTTPSet: UseBroken and Request, one action per atomic step of the call. *)
(***************************************************************************)
\* the goroutine that runs the future of client i
Unit(i) == i + 1
\* the goroutine that runs the future of client i in the call of caller s,
\* and every goroutine a call of s can start
UnitOf(s, i) == IF s = 1 THEN Unit(i) ELSE MaxClients + Unit(i)
UnitsOf(s) == {UnitOf(s, i) : i \in 0..((IF s = 1 THEN MaxClients ELSE MaxSet) - 1)}

\* the launch loop skips a client: the aggregator's mode against broken.Has(i)
MutSkippedWorkingOnly(useBroken, has) == ~useBroken /\ has

MutSkippedBrokenOnly(useBroken, has) == useBroken /\ ~has

Skipped(useBroken, has) == (useBroken /\ ~has) \/ (~useBroken /\ has)

\* the broken set after the await of client i: broken.Add(i) or broken.Delete(i)
MutMarkOnlyAdds(b, i, failed) == IF failed THEN b \cup {i} ELSE b

MutMarkOnlyDeletes(b, i, failed) == IF failed THEN b ELSE b \ {i}

Mark(b, i, failed) == IF failed THEN b \cup {i} ELSE b \ {i}

\* errors.Join(errs...): nil when there is nothing to join
ErrorsJoin(errs) == [isNil |-> errs = <<>>, errs |-> errs]

\* f.Get(ctx) on the future that p runs under context x: the select takes the
\* completed future or the cancelled context, either one when both are ready
CtxErr == [tag |-> "ctx", errs |-> <<>>]
FutureGet(p, x) ==
  (IF rq[p].pc = "done" THEN {rq[p].res} ELSE {})
    \cup (IF ctxDone[x] THEN {CtxErr} ELSE {})

\* the call moves on when a loop has run over every client; at the end it
\* returns resps and the joined errors
MutSettleFirstOnly(call) ==
  LET a == IF call.pc = "launch" /\ call.i = call.n
           THEN [call EXCEPT !.pc = "await", !.i = 0] ELSE call IN
  IF a.pc = "await" /\ (a.i = a.n \/ a.i = 1)
  THEN [a EXCEPT !.pc = "done",
                 !.ret = [resps |-> a.resps, err |-> ErrorsJoin(a.errs)]]
  ELSE a

Settle(call) ==
  LET a == IF call.pc = "launch" /\ call.i = call.n
           THEN [call EXCEPT !.pc = "await", !.i = 0] ELSE call IN
  IF a.pc = "await" /\ a.i = a.n
  THEN [a EXCEPT !.pc = "done",
                 !.ret = [resps |-> a.resps, err |-> ErrorsJoin(a.errs)]]
  ELSE a

\* what UseBroken() returns when the broken set is b: (nil, false), or a view
\* sharing clients and broken with the useBroken flag set
MutUseBrokenAlways(b) == [called |-> TRUE, isNil |-> FALSE, ok |-> TRUE, useBroken |-> TRUE]

UseBrokenRet(b) ==
  IF b = {}
  THEN [called |-> TRUE, isNil |-> TRUE, ok |-> FALSE, useBroken |-> FALSE]
  ELSE [called |-> TRUE, isNil |-> FALSE, ok |-> TRUE, useBroken |-> TRUE]

UseBroken ==
  /\ \A s \in SetCallers : sc[s].pc \in {"idle", "done"}
  /\ ~ubRet.called
  /\ ubRet' = UseBrokenRet(broken)
  /\ hasView' = (hasView \/ ubRet'.ok)
  /\ view' = IF ubRet'.ok THEN [clients |-> clients, cap |-> cap, shared |-> TRUE] ELSE view
  /\ UNCHANGED <<clients, breakers, rq, ctxDone, started, streak, everFailed, broken, sc,
                 cap, addRet, del, hist>>

\* broken.Delete(i)
MutDeleteWithNext(b, i) == b \ {i, i + 1}

Delete(b, i) == b \ {i}

\* GetBroken(): nil for an empty set, else its values
GetBroken(b) == [isNil |-> b = {}, values |-> b]

\* no fan-out of a caller of the set is in progress
NoFanOut == \A s \in SetCallers : sc[s].pc \in {"idle", "done"}

\* DeleteBroken returns when its loop has run over every index; of a call
\* that a fan-out ran beside, nothing is kept but the loop
DeleteSettle(d) ==
  IF d.i = Len(d.indxs) THEN (IF d.alone THEN [d EXCEPT !.stage = "cleared"] ELSE NoDel)
  ELSE IF d.alone THEN d ELSE [d EXCEPT !.before = {}]

\* DeleteBroken(indxs...), on the set or on its view: both hold the one
\* broken set.  A goroutine of its own calls it, at any time; alone says
\* that no fan-out was in progress from the call to the return.
DeleteBroken(indxs) ==
  /\ del.stage /= "clearing"
  /\ del' = DeleteSettle([stage |-> "clearing", indxs |-> indxs, before |-> broken,
                          i |-> 0, alone |-> NoFanOut])
  /\ UNCHANGED <<clients, breakers, rq, ctxDone, started, streak, everFailed, broken, hasView,
                 ubRet, sc, cap, view, addRet, hist>>

\* one round of the loop of DeleteBroken: c.broken.Delete(i), one critical
\* section of the broken set
DeleteNext ==
  LET i == del.indxs[del.i + 1] IN
  /\ del.stage = "clearing"
  /\ broken' = Delete(broken, i)
  /\ del' = DeleteSettle([del EXCEPT !.i = @ + 1, !.alone = @ /\ NoFanOut])
  /\ hist' = [j \in DOMAIN hist |-> IF j = i THEN "cleared" ELSE hist[j]]
  /\ UNCHANGED <<clients, breakers, rq, ctxDone, started, streak, everFailed, hasView, ubRet,
                 sc, cap, view, addRet>>

\* append(s, x) on a full slice of pointers: the Go runtime doubles a small
\* capacity
GrowCap(c) == IF c = 0 THEN 1 ELSE 2 * c

\* c.clients = append(c.clients, cli), where x is c.clients and y the
\* clients of the other aggregator, same the array behind both: with room
\* left the element is written in place, into a slot that the other slice
\* may cover, else the slice moves to a new array of its own
AppendClient(st, cli) ==
  IF Len(st.x) < st.xcap
  THEN [st EXCEPT !.x = Append(@, cli),
                  !.y = IF st.same /\ Len(st.x) < Len(@)
                        THEN [@ EXCEPT ![Len(st.x) + 1] = cli] ELSE @]
  ELSE [st EXCEPT !.x = Append(@, cli), !.xcap = GrowCap(@), !.same = FALSE]

\* the loop of Add from configuration i on: the first NewWithConfig that
\* fails ends it with "client i"
RECURSIVE AddLoop(_, _, _)
AddLoop(st, cfgs, i) ==
  IF i = Len(cfgs) THEN st
  ELSE LET r == NewWithConfig(cfgs[i + 1]) IN
       IF r.err /= "nil" THEN [st EXCEPT !.err = r.err, !.at = i]
       ELSE AddLoop(AppendClient(st, r.cli), cfgs, i + 1)

\* Add(cfgs...) on the set, or on the view when v; a nil c.clients, which
\* has no capacity, is made with room for len(cfgs).  The caller is between
\* two fan-outs whose futures have run out.
Add(v, cfgs) ==
  /\ \A s \in SetCallers : sc[s].pc \in {"idle", "done"}
  /\ \A p \in Procs : ~InProgress(p)
  /\ v => hasView
  /\ LET xcap == IF v THEN view.cap ELSE cap
         st == AddLoop([x |-> Clients(v),
                        xcap |-> IF cfgs /= <<>> /\ xcap = 0 THEN Len(cfgs) ELSE xcap,
                        y |-> Clients(~v), same |-> hasView /\ view.shared,
                        err |-> "nil", at |-> 0], cfgs, 0) IN
     /\ Len(st.x) <= MaxSet
     /\ clients' = IF v THEN st.y ELSE st.x
     /\ cap' = IF v THEN cap ELSE st.xcap
     /\ view' = IF ~hasView THEN view
                ELSE IF v THEN [clients |-> st.x, cap |-> st.xcap, shared |-> st.same]
                ELSE [view EXCEPT !.clients = st.y, !.shared = st.same]
     /\ addRet' = [called |-> TRUE, onView |-> v, cfgs |-> cfgs, n |-> Len(Clients(v)),
                   isNil |-> st.err = "nil", at |-> st.at, err |-> st.err]
  /\ UNCHANGED <<breakers, rq, ctxDone, started, streak, everFailed, broken, hasView, ubRet,
                 sc, del, hist>>

\* a fan-out was started: a DeleteBroken in progress is no longer alone, and
\* the last DeleteBroken is followed by one call, then forgotten
Followed(d) ==
  IF d.stage = "clearing" THEN [d EXCEPT !.alone = FALSE, !.before = {}]
  ELSE IF d.stage = "cleared" THEN [d EXCEPT !.stage = "next"] ELSE NoDel

\* caller s calls Request(ctx, u, o) on the set, or on a view when ub
SetRequest(s, ub, u, o) ==
  /\ sc[s].pc \in {"idle", "done"}
  /\ ub => hasView
  \* the futures of an earlier call have run out and are dropped
  /\ \A p \in UnitsOf(s) : ~InProgress(p)
  /\ rq' = [p \in Procs |-> IF p \in UnitsOf(s) THEN IdleRun ELSE rq[p]]
  /\ sc' = [sc EXCEPT ![s] =
              Settle([IdleCall EXCEPT !.pc = "launch", !.useBroken = ub, !.url = u,
                                      !.opts = o, !.n = Len(Clients(ub)),
                                      !.fs = [i \in 1..Len(Clients(ub)) |-> 0],
                                      !.before = broken])]
  /\ ctxDone' = [ctxDone EXCEPT ![SetCtx(s)] = FALSE]
  /\ ubRet' = NoRet
  /\ del' = Followed(del)
  /\ addRet' = NoAdd
  /\ UNCHANGED <<clients, breakers, started, streak, everFailed, broken, hasView, cap, view,
                 hist>>

\* one round of the launch loop: skip client i or start its future, whose
\* goroutine meets transport k
SetLaunch(s) ==
  LET call == sc[s]
      i == call.i IN
  /\ call.pc = "launch"
  /\ IF Skipped(call.useBroken, i \in broken)
     THEN /\ sc' = [sc EXCEPT ![s] = Settle([call EXCEPT !.i = i + 1])]
          /\ UNCHANGED rq
     ELSE /\ sc' = [sc EXCEPT ![s] =
                      Settle([call EXCEPT !.i = i + 1, !.fs[i + 1] = UnitOf(s, i)])]
          /\ \E k \in [fails : {0, Always}, kinds : {{"e500"}}] :
               rq' = [rq EXCEPT ![UnitOf(s, i)] =
                        StartRun(call.useBroken, i, SetCtx(s), call.url, call.opts, k,
                                 FALSE)]
  /\ UNCHANGED <<clients, breakers, ctxDone, started, streak, everFailed, broken, hasView, ubRet, aggVars, hist>>

\* one round of the await loop: f.Get(ctx) of client i, then the bookkeeping
SetAwait(s) ==
  LET call == sc[s]
      i == call.i
      p == call.fs[i + 1] IN
  /\ call.pc = "await"
  /\ IF p = 0
     THEN /\ sc' = [sc EXCEPT ![s] = Settle([call EXCEPT !.i = i + 1])]
          /\ UNCHANGED broken
     ELSE \E r \in FutureGet(p, SetCtx(s)) :
            LET failed == r.tag /= "ok" IN
            /\ sc' = [sc EXCEPT ![s] = Settle(
                        [call EXCEPT !.i = i + 1,
                                     !.errs = IF failed
                                              THEN Append(@, [client |-> i, err |-> r.tag])
                                              ELSE @,
                                     !.resps = IF failed THEN @ ELSE Append(@, i)])]
            /\ broken' = Mark(broken, i, failed)
  /\ UNCHANGED <<clients, breakers, rq, ctxDone, started, streak, everFailed, hasView, ubRet, aggVars, hist>>

(***************************************************************************)
(* HTTPSet.Send and HTTP.Send.                                             *)
(***************************************************************************)
\* the launch loop of Send skips a client
MutSendSkippedNever(useBroken, has) == FALSE

SendSkipped(useBroken, has) == (useBroken /\ ~has) \/ (~useBroken /\ has)

\* the broken set after the await of client i in Send
MutSendMarkOnlyAdds(b, i, failed) == IF failed THEN b \cup {i} ELSE b

SendMark(b, i, failed) == IF failed THEN b \cup {i} ELSE b \ {i}

\* errs.Err() of the errm list: nil when nothing was wrapped
SafeListErr(errs) == [isNil |-> errs = <<>>, errs |-> errs]

\* f.Await(ctx) on the waiter that p runs under context x
WaiterAwait(p, x) ==
  (IF rq[p].pc = "done" THEN {rq[p].res} ELSE {})
    \cup (IF ctxDone[x] THEN {CtxErr} ELSE {})

\* Send moves on when a loop has run over every client; it returns the
\* error of the list alone
SendSettle(call) ==
  LET a == IF call.pc = "slaunch" /\ call.i = call.n
           THEN [call EXCEPT !.pc = "sawait", !.i = 0] ELSE call IN
  IF a.pc = "sawait" /\ a.i = a.n
  THEN [a EXCEPT !.pc = "done", !.ret = [resps |-> <<>>, err |-> SafeListErr(a.errs)]]
  ELSE a

\* HTTP.Send(ctx, requestBody, queryPairs...) on client c of the aggregator:
\* an error at once without address, else a POST of the body to the address
\* with no retry option
NoAddress == [tag |-> "failed", errs |-> <<"address cannot be empty">>]
HTTPSend(v, c, x, requestBody, k) ==
  LET address == Clients(v)[c + 1].address IN
  IF address = <<>>
  THEN [IdleRun EXCEPT !.pc = "done", !.view = v, !.cli = c, !.ctx = x, !.res = NoAddress]
  ELSE StartRun(v, c, x, address,
                [ZeroOpts EXCEPT !.Method = "POST", !.Body = requestBody], k, FALSE)

\* caller s calls Send(ctx, requestBody) on the set, or on a view when ub
SetSend(s, ub, requestBody) ==
  /\ sc[s].pc \in {"idle", "done"}
  /\ ub => hasView
  /\ \A p \in UnitsOf(s) : ~InProgress(p)
  /\ rq' = [p \in Procs |-> IF p \in UnitsOf(s) THEN IdleRun ELSE rq[p]]
  /\ sc' = [sc EXCEPT ![s] =
              SendSettle([IdleCall EXCEPT !.pc = "slaunch", !.send = TRUE,
                                          !.useBroken = ub, !.requestBody = requestBody,
                                          !.n = Len(Clients(ub)),
                                          !.fs = [i \in 1..Len(Clients(ub)) |-> 0],
                                          !.before = broken])]
  /\ ctxDone' = [ctxDone EXCEPT ![SetCtx(s)] = FALSE]
  /\ ubRet' = NoRet
  /\ del' = Followed(del)
  /\ addRet' = NoAdd
  /\ UNCHANGED <<clients, breakers, started, streak, everFailed, broken, hasView, cap, view,
                 hist>>

\* one round of the launch loop of Send: skip client i or start its waiter
SendLaunch(s) ==
  LET call == sc[s]
      i == call.i IN
  /\ call.pc = "slaunch"
  /\ IF SendSkipped(call.useBroken, i \in broken)
     THEN /\ sc' = [sc EXCEPT ![s] = SendSettle([call EXCEPT !.i = i + 1])]
          /\ UNCHANGED rq
     ELSE /\ sc' = [sc EXCEPT ![s] =
                      SendSettle([call EXCEPT !.i = i + 1, !.fs[i + 1] = UnitOf(s, i)])]
          /\ \E k \in [fails : {0, Always}, kinds : {{"e500"}}] :
               \* without address no transport is met
               /\ (Clients(call.useBroken)[i + 1].address = <<>> => k.fails = 0)
               /\ rq' = [rq EXCEPT ![UnitOf(s, i)] =
                           HTTPSend(call.useBroken, i, SetCtx(s), call.requestBody, k)]
  /\ UNCHANGED <<clients, breakers, ctxDone, started, streak, everFailed, broken, hasView,
                 ubRet, aggVars, hist>>

\* one round of the await loop of Send: f.Await(ctx) of client i, then the
\* bookkeeping
SendAwait(s) ==
  LET call == sc[s]
      i == call.i
      p == call.fs[i + 1] IN
  /\ call.pc = "sawait"
  /\ IF p = 0
     THEN /\ sc' = [sc EXCEPT ![s] = SendSettle([call EXCEPT !.i = i + 1])]
          /\ UNCHANGED broken
     ELSE \E r \in WaiterAwait(p, SetCtx(s)) :
            LET failed == r.tag /= "ok" IN
            /\ sc' = [sc EXCEPT ![s] = SendSettle(
                        [call EXCEPT !.i = i + 1,
                                     !.errs = IF failed
                                              THEN Append(@, [client |-> i, err |-> r.tag])
                                              ELSE @])]
            /\ broken' = SendMark(broken, i, failed)
  /\ UNCHANGED <<clients, breakers, rq, ctxDone, started, streak, everFailed, hasView, ubRet,
                 aggVars, hist>>

\* the caller cancels the context of its Request in progress
SetCancel(s) ==
  /\ sc[s].pc \in {"launch", "await"}
  /\ ~ctxDone[SetCtx(s)]
  /\ ctxDone' = [ctxDone EXCEPT ![SetCtx(s)] = TRUE]
  /\ UNCHANGED <<clients, breakers, rq, started, streak, everFailed, broken, hasView, ubRet, sc, aggVars, hist>>

(***************************************************************************)
(* The retry executor alone: one client without breaker, one caller, any   *)
(* options, any transport.                                                 *)
(***************************************************************************)
RetryOpts ==
  [Method : {""}, RetryCount : 0..MaxRetryCount, InfiniteRetry : BOOLEAN, RetryOnlyServerErrors : BOOLEAN,
   Body : {0}, Result : {0}, RetryWaitTime : {1}, RetryMaxWaitTime : {1}]
Plans == [fails : (0..MaxFail) \cup {Always}, kinds : {TransportErrs}]

InitCommon ==
  /\ breakers = << >>
  /\ rq = [p \in Procs |-> IdleRun]
  /\ ctxDone = [x \in Ctxs |-> FALSE]
  /\ broken = {}
  /\ hasView = FALSE
  /\ ubRet = NoRet
  /\ sc = [s \in SetCallers |-> IdleCall]
  /\ started = 0
  /\ streak = [u \in Keys |-> 0]
  /\ everFailed = {}
  /\ cap = Len(clients)
  /\ view = NoView
  /\ addRet = NoAdd
  /\ del = NoDel

InitRetry ==
  /\ hist = NoHist
  /\ \E base \in {<<>>, BaseSrv} :
       clients = <<NewWithConfig(Config(FALSE, base, 0)).cli>>
  /\ InitCommon

NextRetry ==
  \/ \E o \in RetryOpts, k \in Plans : rq[1].pc = "idle" /\ Request(1, 0, U_ok, o, k)
  \/ Dispatch(1)
  \/ RetryAttempt(1)
  \/ Canceled(1)
  \/ Cancel(1)
  \/ Return(1)

SpecRetry == InitRetry /\ [][NextRetry]_vars

\* the same executor with its goroutine scheduled and its timers firing: a
\* dispatch that is due is made, and a backoff wait ends
SpecRetryLive ==
  InitRetry /\ [][NextRetry]_vars /\ WF_vars(Dispatch(1)) /\ WF_vars(RetryAttempt(1))

\* and with a select that takes the case of a context that stays done
SpecCancelLive ==
  /\ InitRetry /\ [][NextRetry]_vars
  /\ WF_vars(Dispatch(1)) /\ WF_vars(RetryAttempt(1)) /\ WF_vars(Canceled(1))

(***************************************************************************)
(* The backoff: the retry executor against a transport that always fails,  *)
(* under every pair of wait times a caller can set or leave unset.         *)
(***************************************************************************)
SleepOpts ==
  [Method : {""}, RetryCount : {MaxRetryCount}, InfiniteRetry : {FALSE}, RetryOnlyServerErrors : {FALSE},
   Body : {0}, Result : {0}, RetryWaitTime : 0..MaxWait, RetryMaxWaitTime : 0..MaxWait]

NextSleep ==
  \/ \E o \in SleepOpts :
       /\ rq[1].pc = "idle"
       /\ Request(1, 0, U_ok, o, [fails |-> Always, kinds |-> {"e500"}])
  \/ Dispatch(1)
  \/ RetryAttempt(1)
  \/ Return(1)

SpecSleep == InitRetry /\ [][NextSleep]_vars

(***************************************************************************)
(* The breaker: one client with circuit breaking enabled and threshold F,  *)
(* two callers whose Requests may overlap, two URLs.                       *)
(***************************************************************************)
CBProcs == {1, 2}
CBOpts ==
  [Method : {""}, RetryCount : {0, 2}, InfiniteRetry : {FALSE}, RetryOnlyServerErrors : {FALSE},
   Body : {0}, Result : {0}, RetryWaitTime : {1}, RetryMaxWaitTime : {1}]
CBPlans == [fails : {0, 1, Always}, kinds : {{"e500"}}]
\* the calls made: a transport that always fails is met with and without
\* retries, one that fails once only with them
CBCalls ==
  {c \in CBOpts \X CBPlans :
     \/ c[2].fails = Always
     \/ c[2].fails = 0 /\ c[1].RetryCount = 0
     \/ c[2].fails = 1 /\ c[1].RetryCount = 2}

InitCB ==
  /\ hist = NoHist
  /\ \E f \in 1..MaxF :
       clients = <<NewWithConfig(Config(TRUE, BaseSrv, f)).cli>>
  /\ InitCommon

NextCB ==
  \/ \E p \in CBProcs, u \in URLs, c \in CBCalls :
       \* the second goroutine is needed only while the first is busy
       /\ p = 2 => InProgress(1)
       /\ Request(p, 0, u, c[1], c[2])
  \/ \E p \in CBProcs : CreateBreaker(p)
  \/ \E p \in CBProcs : BeforeRequest(p)
  \/ \E p \in CBProcs : Dispatch(p)
  \/ \E p \in CBProcs : RetryAttempt(p)
  \/ \E i \in DOMAIN breakers : TimerExpire(i)

SpecCB == InitCB /\ [][NextCB]_vars

(***************************************************************************)
(* The aggregator: a set of one to MaxClients clients without breakers,    *)
(* one caller that uses the set and its UseBroken view in turn.            *)
(***************************************************************************)
\* the caller passes a Result sink, object 1, or none
SetOpts ==
  [Method : {""}, RetryCount : {0, 2}, InfiniteRetry : {FALSE}, RetryOnlyServerErrors : {FALSE},
   Body : {0}, Result : {0, 1}, RetryWaitTime : {1}, RetryMaxWaitTime : {1}]

InitSet ==
  /\ hist = NoHist
  /\ \E n \in 1..MaxClients :
       clients = [i \in 1..n |->
                    NewWithConfig(Config(FALSE, BaseSrv, 0)).cli]
  /\ InitCommon

NextSet ==
  \/ \E ub \in BOOLEAN, o \in SetOpts : SetRequest(1, ub, U_ok, o)
  \/ SetLaunch(1)
  \/ SetAwait(1)
  \/ SetCancel(1)
  \/ UseBroken
  \/ \E p \in Procs : Dispatch(p)
  \/ \E p \in Procs : RetryAttempt(p)
  \/ \E p \in Procs : Canceled(p)

SpecSet == InitSet /\ [][NextSet]_vars

(***************************************************************************)
(* Growing the aggregator: a set that starts empty, one caller that adds   *)
(* clients to the set and to its UseBroken view and fans out in between;   *)
(* no retry, no cancellation.                                              *)
(***************************************************************************)
\* two servers and a BaseURL that does not validate
Configs == {Config(FALSE, BaseSrv, 0), Config(FALSE, BaseAlt, 0), Config(FALSE, BaseBad, 0)}
\* the arguments of a variadic call: none, one or two values of S
UpToTwo(S) == {<<>>} \cup {<<x>> : x \in S} \cup {<<x, y>> : x \in S, y \in S}
Batches == UpToTwo(Configs)

InitAdd ==
  /\ clients = <<>>
  /\ hist = NoHist
  /\ InitCommon

NextAdd ==
  \/ \E v \in BOOLEAN, cfgs \in Batches : Add(v, cfgs)
  \/ UseBroken
  \/ \E ub \in BOOLEAN : SetRequest(1, ub, U_ok, ZeroOpts)
  \/ SetLaunch(1)
  \/ SetAwait(1)
  \/ \E p \in Procs : Dispatch(p)

SpecAdd == InitAdd /\ [][NextAdd]_vars

(***************************************************************************)
(* The history of outcomes: a set of one to MaxSet clients, one caller     *)
(* that uses the set and its UseBroken view in turn; no retry, no          *)
(* cancellation; how the last request to each client ended is kept.        *)
(***************************************************************************)
InitDel ==
  /\ \E n \in 1..MaxSet :
       clients = [i \in 1..n |-> NewWithConfig(Config(FALSE, BaseSrv, 0)).cli]
  /\ hist = [i \in 0..(MaxSet - 1) |-> "none"]
  /\ InitCommon

NextHist ==
  \/ UseBroken
  \/ \E ub \in BOOLEAN : SetRequest(1, ub, U_ok, ZeroOpts)
  \/ SetLaunch(1)
  \/ SetAwait(1)
  \/ \E p \in Procs : Dispatch(p)

SpecHist == InitDel /\ [][NextHist]_vars

(***************************************************************************)
(* Clearing by hand: a set of one to MaxSet clients, one caller that uses  *)
(* the set and its UseBroken view in turn, and a goroutine that calls      *)
(* DeleteBroken at any time; no retry, no cancellation.                    *)
(***************************************************************************)
\* the indices of a DeleteBroken: of clients, and one that is out of range
IndexLists == UpToTwo(0..MaxSet)

InitClear ==
  /\ \E n \in 1..MaxSet :
       clients = [i \in 1..n |-> NewWithConfig(Config(FALSE, BaseSrv, 0)).cli]
  /\ hist = NoHist
  /\ InitCommon

NextDel ==
  \/ \E indxs \in IndexLists : DeleteBroken(indxs)
  \/ DeleteNext
  \/ UseBroken
  \/ \E ub \in BOOLEAN : SetRequest(1, ub, U_ok, ZeroOpts)
  \/ SetLaunch(1)
  \/ SetAwait(1)
  \/ \E p \in Procs : Dispatch(p)

SpecDel == InitClear /\ [][NextDel]_vars

(***************************************************************************)
(* The mode filter: the same on a set of no to MaxSet clients.             *)
(***************************************************************************)
InitFilter ==
  /\ \E n \in 0..MaxSet :
       clients = [i \in 1..n |-> NewWithConfig(Config(FALSE, BaseSrv, 0)).cli]
  /\ hist = NoHist
  /\ InitCommon

SpecFilter == InitFilter /\ [][NextDel]_vars

(***************************************************************************)
(* Send beside Request: a set of one to MaxSet clients with and without    *)
(* address, one caller that calls Send and Request on the set and on its   *)
(* UseBroken view in turn; no retry, no cancellation.                      *)
(***************************************************************************)
\* the clients have the address http://s.io/x or none; the body of a Send
\* is a byte slice, object 1 or 2, never nil
Addresses == {U_full, <<>>}
Bodies == {1, 2}

InitSend ==
  /\ \E n \in 1..MaxSet :
       clients \in [1..n -> {NewWithAddress(a) : a \in Addresses}]
  /\ hist = NoHist
  /\ InitCommon

NextSend ==
  \/ \E ub \in BOOLEAN, requestBody \in Bodies : SetSend(1, ub, requestBody)
  \/ SendLaunch(1)
  \/ SendAwait(1)
  \/ \E ub \in BOOLEAN : SetRequest(1, ub, U_ok, ZeroOpts)
  \/ SetLaunch(1)
  \/ SetAwait(1)
  \/ UseBroken
  \/ \E p \in Procs : Dispatch(p)

SpecSend == InitSend /\ [][NextSend]_vars

(***************************************************************************)
(* The registry key: one client with circuit breaking enabled and without  *)
(* BaseURL, one caller, the two spellings of one address.                  *)
(***************************************************************************)
InitKey ==
  /\ hist = NoHist
  /\ \E f \in 1..MaxF :
       clients = <<NewWithConfig(Config(TRUE, <<>>, f)).cli>>
  /\ InitCommon

NextKey ==
  \/ \E u \in Spellings, c \in CBCalls : Request(1, 0, u, c[1], c[2])
  \/ CreateBreaker(1)
  \/ BeforeRequest(1)
  \/ Dispatch(1)
  \/ RetryAttempt(1)
  \/ \E i \in DOMAIN breakers : TimerExpire(i)

SpecKey == InitKey /\ [][NextKey]_vars

(***************************************************************************)
(* Overlapping calls: two callers, one Request each on one set of one or   *)
(* two clients, each call with goroutines of its own, no context           *)
(* cancelled.                                                              *)
(***************************************************************************)
NextOverlap ==
  \/ \E s \in SetCallers : sc[s].pc = "idle" /\ SetRequest(s, FALSE, U_ok, ZeroOpts)
  \/ \E s \in SetCallers : SetLaunch(s)
  \/ \E s \in SetCallers : SetAwait(s)
  \/ \E p \in Procs : Dispatch(p)

SpecOverlap == InitDel /\ [][NextOverlap]_vars

(***************************************************************************)
(* The breaker and cancellation: one client with circuit breaking enabled  *)
(* and threshold F, one caller who may cancel; the transport fails once    *)
(* and then succeeds, so that a Request fails only by being cancelled      *)
(* during its backoff wait.                                                *)
(***************************************************************************)
CancelOpts == [ZeroOpts EXCEPT !.RetryCount = MaxRetryCount, !.RetryWaitTime = 1,
                               !.RetryMaxWaitTime = 1]
CancelPlan == [fails |-> 1, kinds |-> {"e500"}]

NextCBCancel ==
  \/ \E u \in URLs : Request(1, 0, u, CancelOpts, CancelPlan)
  \/ CreateBreaker(1)
  \/ BeforeRequest(1)
  \/ Dispatch(1)
  \/ RetryAttempt(1)
  \/ Cancel(1)
  \/ Canceled(1)
  \/ \E i \in DOMAIN breakers : TimerExpire(i)

SpecCBCancel == InitCB /\ [][NextCBCancel]_vars

(***************************************************************************)
(* The GET helpers: a set of one client without breaker, one caller of the *)
(* set and one caller of that client; the callers pass a response object   *)
(* (1 or 2) or none.                                                       *)
(***************************************************************************)
\* lang.First of a variadic argument: its first value, or nil
First(values) == IF Len(values) = 0 THEN 0 ELSE values[1]

Variadics == {<<>>, <<1>>, <<2>>}
GetPlans == [fails : {0, Always}, kinds : {{"e500"}}]
\* the goroutine that calls the client directly
Direct == MaxClients + 1

Get(p, c, u, responseBody, k) ==
  Request(p, c, u, [ZeroOpts EXCEPT !.Result = First(responseBody)], k)

GetQ(p, c, u, responseBody, k) ==
  Request(p, c, u, [ZeroOpts EXCEPT !.Result = responseBody], k)

SetGet(s, ub, u, responseBody) ==
  SetRequest(s, ub, u, [ZeroOpts EXCEPT !.Body = First(responseBody)])

SetGetQ(s, ub, u, responseBody) ==
  SetRequest(s, ub, u, [ZeroOpts EXCEPT !.Body = responseBody])

InitGet ==
  /\ hist = NoHist
  /\ clients = <<NewWithConfig(Config(FALSE, BaseSrv, 0)).cli>>
  /\ InitCommon

NextGet ==
  \/ \E responseBody \in Variadics, k \in GetPlans : Get(Direct, 0, U_ok, responseBody, k)
  \/ \E responseBody \in 0..2, k \in GetPlans : GetQ(Direct, 0, U_ok, responseBody, k)
  \/ \E responseBody \in Variadics : SetGet(1, FALSE, U_ok, responseBody)
  \/ \E responseBody \in 0..2 : SetGetQ(1, FALSE, U_ok, responseBody)
  \/ SetLaunch(1)
  \/ SetAwait(1)
  \/ \E p \in Procs : Dispatch(p)

SpecGet == InitGet /\ [][NextGet]_vars

(***************************************************************************)
(* The breaker and a slow Request: one client with circuit breaking        *)
(* enabled and threshold F, one URL, no retry; one caller whose Requests   *)
(* follow one another and a second whose single Request succeeds, and may  *)
(* return after the breaker has opened and closed again.                   *)
(***************************************************************************)
\* the Requests it takes to open a breaker, close it by a trial, and bring
\* it to open again, past one slow Request
MaxSlowReqs == 2 * MaxF + 2

NextSlow ==
  \/ \E k \in {c \in CBPlans : c.fails \in {0, Always}} : RequestWithin(1, 0, U_error, ZeroOpts, k, MaxSlowReqs)
  \/ /\ rq[2].pc = "idle"
     /\ RequestWithin(2, 0, U_error, ZeroOpts, [fails |-> 0, kinds |-> {"e500"}], MaxSlowReqs)
  \/ \E p \in CBProcs : CreateBreaker(p)
  \/ \E p \in CBProcs : BeforeRequest(p)
  \/ \E p \in CBProcs : Dispatch(p)
  \/ \E i \in DOMAIN breakers : TimerExpire(i)

SpecSlow == InitCB /\ [][NextSlow]_vars

(***************************************************************************)
(* Claims about the breaker, checked under SpecCB.                         *)
(***************************************************************************)
\* goroutine p takes the step of cb.Execute that admits or rejects its Request
Decides(p) == rq[p].pc = "before" /\ rq'[p].pc /= "before"

\* the Request of p was rejected, with the error tag, and never reached the transport
Rejected(run, tag) == run.pc = "done" /\ run.res.tag = tag /\ run.calls = 0

\* C1: threshold F; after F failed Request calls to one URL in a row, the next
\* Request to that URL, made before the breaker's timeout has elapsed,
\* returns the circuit-open error and does not invoke the transport.
C1_RejectedAfterFFailures ==
  [][\A p \in Procs :
       ( /\ Decides(p)
         /\ ~rq[p].overlap
         /\ streak[rq[p].url] >= clients[rq[p].cli + 1].cbFailures
         /\ ~breakers[rq[p].cb].expired )
       => Rejected(rq'[p], "open")]_vars

C1_Witness ==
  \E p \in Procs :
    /\ Rejected(rq[p], "open")
    /\ ~rq[p].overlap
    /\ clients[rq[p].cli + 1].cbFailures = 2
    /\ streak[rq[p].url] > 2

\* the Request of p is the trial of the half-open breaker it runs under
Trial(p) ==
  /\ rq[p].pc \in {"dispatch", "wait"}
  /\ rq[p].cb /= NoCB
  /\ breakers[rq[p].cb].state = "half-open"
  /\ breakers[rq[p].cb].generation = rq[p].gen

\* C2: once the timeout of an open breaker has elapsed, the next Request is
\* admitted as the trial; while the trial is in flight every other Request
\* to the URL is rejected without invoking the transport; a trial that
\* succeeds closes the breaker with its counters reset, one that fails
\* re-opens it with the timeout started again.
C2_HalfOpenTrial ==
  [][\A p \in Procs :
       LET b == breakers[rq[p].cb]
           b2 == breakers'[rq[p].cb] IN
       /\ (Decides(p) /\ b.state = "open" /\ b.expired)
          => rq'[p].pc = "dispatch" /\ b2.state = "half-open" /\ b2.generation = rq'[p].gen
       /\ (Decides(p) /\ \E q \in Procs \ {p} : Trial(q) /\ rq[q].cb = rq[p].cb)
          => Rejected(rq'[p], "toomany")
       /\ (Trial(p) /\ rq'[p].pc = "done")
          => IF rq'[p].res.tag = "ok"
             THEN b2.state = "closed" /\ b2.counts.ConsecutiveFailures = 0
             ELSE b2.state = "open" /\ ~b2.expired]_vars

C2_Witness ==
  \E p, q \in Procs :
    /\ Rejected(rq[p], "toomany")
    /\ Trial(q)
    /\ rq[q].cb = rq[p].cb

\* what the client holds about URL u: its registry entry and every breaker
\* created for it
BreakerView(u) ==
  [entry |-> clients[1].cbs[u],
   made |-> {<<i, breakers[i]>> : i \in {j \in DOMAIN breakers : breakers[j].key = u}}]

\* C3: the breaker state of a URL changes only by a Request to that URL (or
\* by its own timeout), and a Request is rejected only if a Request to its
\* own URL has failed before.
C3_OtherURLUnaffected ==
  [][/\ \A u \in URLs :
          BreakerView(u)' /= BreakerView(u)
          => \/ rq' = rq
             \/ \E p \in Procs : rq'[p] /= rq[p] /\ rq'[p].url = u
     /\ \A p \in Procs :
          (Decides(p) /\ rq'[p].pc = "done") => rq[p].url \in everFailed]_vars

C3_Witness ==
  \E p, q \in Procs :
    /\ rq[q].url = U_error /\ Rejected(rq[q], "open")
    /\ breakers[rq[q].cb].state = "open"
    /\ rq[p].url = U_ok /\ rq[p].pc = "done" /\ rq[p].res.tag = "ok"
    /\ rq[p].cb /= NoCB /\ breakers[rq[p].cb].state = "closed"
    /\ breakers[rq[p].cb].counts.Requests > 0

(***************************************************************************)
(* Claims about the retry executor, checked under SpecRetry.               *)
(***************************************************************************)
Done(p) == rq[p].pc = "done"

\* RetryOnlyServerErrors does not stop the run: it is unset or every failure
\* the run met is classified as a server error
Retryable(run) ==
  run.opts.RetryOnlyServerErrors =>
    \A i \in 1..Len(run.seen) : IsServerError(run.seen[i])

\* C4: a transport that fails exactly k times and then succeeds, with
\* RetryCount > k, InfiniteRetry unset, no cancellation and retryable errors:
\* the Request returns the success and the transport was invoked k + 1 times.
C4_FailsThenSucceeds ==
  \A p \in Procs :
    ( /\ Done(p)
      /\ rq[p].plan.fails \in 0..MaxFail
      /\ rq[p].opts.RetryCount > rq[p].plan.fails
      /\ ~rq[p].opts.InfiniteRetry
      /\ ~ctxDone[rq[p].ctx]
      /\ Retryable(rq[p]) )
    => rq[p].res.tag = "ok" /\ rq[p].calls = rq[p].plan.fails + 1

C4_Witness ==
  \E p \in Procs :
    /\ Done(p) /\ rq[p].plan.fails = 2 /\ rq[p].opts.RetryCount = 3
    /\ ~rq[p].opts.InfiniteRetry /\ ~ctxDone[rq[p].ctx]
    /\ rq[p].res.tag = "ok" /\ rq[p].calls = 3

\* C5 as stated: InfiniteRetry unset, RetryCount = N >= 1, a transport that
\* always fails, no cancellation: exactly N invocations and then a
\* retry-exhausted error; and never more than N invocations.
C5_AsStated ==
  \A p \in Procs :
    /\ ( /\ Done(p)
         /\ rq[p].plan.fails = Always
         /\ rq[p].opts.RetryCount >= 1
         /\ ~rq[p].opts.InfiniteRetry
         /\ ~ctxDone[rq[p].ctx] )
       => rq[p].calls = rq[p].opts.RetryCount /\ rq[p].res.tag = "exhausted"
    /\ (rq[p].opts.RetryCount >= 1 /\ ~rq[p].opts.InfiniteRetry)
       => rq[p].calls <= rq[p].opts.RetryCount

\* C5 (amended): as C5, provided RetryOnlyServerErrors is unset or the first
\* failure is classified as a server error: exactly N invocations, then the
\* retry-exhausted error; whatever the transport and the options, never more
\* than N invocations.
C5_ExactlyN ==
  \A p \in Procs :
    /\ ( /\ Done(p)
         /\ rq[p].plan.fails = Always
         /\ rq[p].opts.RetryCount >= 1
         /\ ~rq[p].opts.InfiniteRetry
         /\ ~ctxDone[rq[p].ctx]
         /\ (rq[p].opts.RetryOnlyServerErrors => IsServerError(rq[p].seen[1])) )
       => rq[p].calls = rq[p].opts.RetryCount /\ rq[p].res.tag = "exhausted"
    /\ (rq[p].opts.RetryCount >= 1 /\ ~rq[p].opts.InfiniteRetry)
       => rq[p].calls <= rq[p].opts.RetryCount

C5_Witness ==
  \E p \in Procs :
    /\ Done(p) /\ rq[p].plan.fails = Always /\ rq[p].opts.RetryCount = 3
    /\ ~rq[p].opts.InfiniteRetry /\ ~ctxDone[rq[p].ctx]
    /\ rq[p].opts.RetryOnlyServerErrors /\ rq[p].seen[1] = "e500"
    /\ rq[p].calls = 3 /\ rq[p].res.tag = "exhausted"

\* C6: when every attempt fails (RetryCount = N >= 1, InfiniteRetry unset),
\* the retry-exhausted error aggregates one error per failed invocation, the
\* error of the initial dispatch included: N errors, the ones the run met.
C6_AggregatesEveryError ==
  \A p \in Procs :
    ( /\ Done(p)
      /\ rq[p].res.tag = "exhausted"
      /\ rq[p].opts.RetryCount >= 1
      /\ ~rq[p].opts.InfiniteRetry )
    => /\ rq[p].res.errs = rq[p].seen
       /\ Len(rq[p].res.errs) = rq[p].opts.RetryCount

\* C7: the first dispatch fails and either RetryCount = 0 with InfiniteRetry
\* unset, or RetryOnlyServerErrors is set and the error is not classified as
\* 5xx: the Request returns an error wrapping that error, after one
\* invocation and no backoff wait.
C7_NoRetry ==
  \A p \in Procs :
    ( /\ Done(p)
      /\ rq[p].seen /= <<>>
      /\ \/ rq[p].opts.RetryCount = 0 /\ ~rq[p].opts.InfiniteRetry
         \/ rq[p].opts.RetryOnlyServerErrors /\ ~IsServerError(rq[p].seen[1]) )
    => /\ rq[p].res = [tag |-> "failed", errs |-> <<rq[p].seen[1]>>]
       /\ rq[p].calls = 1
       /\ rq[p].waits = 0

C7_Witness ==
  \E p \in Procs :
    /\ Done(p) /\ rq[p].opts.RetryOnlyServerErrors /\ rq[p].opts.InfiniteRetry
    /\ rq[p].opts.RetryCount = 3 /\ rq[p].seen = <<"e400">>
    /\ rq[p].res.tag = "failed" /\ rq[p].calls = 1

\* C8: with RetryOnlyServerErrors set, no transport attempt follows a failure
\* that is not classified as a server error, at any point of the run.
C8_OnlyServerErrorsRetried ==
  \A p \in Procs :
    rq[p].opts.RetryOnlyServerErrors =>
      \A i \in 1..Len(rq[p].seen) : i < rq[p].calls => IsServerError(rq[p].seen[i])

(***************************************************************************)
(* Claims about the aggregator, checked under SpecSet.                     *)
(***************************************************************************)
\* the clients the call of caller s dispatched to
Dispatched(s) == {i \in 0..(sc[s].n - 1) : sc[s].fs[i + 1] /= 0}
\* the Request of client i has returned, and how
Succeeded(i) == rq[Unit(i)].pc = "done" /\ rq[Unit(i)].res.tag = "ok"
Failed(i) == rq[Unit(i)].pc = "done" /\ rq[Unit(i)].res.tag /= "ok"
\* the clients a sequence of responses or of tagged errors names, in order
ClientsOf(entries) == [j \in 1..Len(entries) |-> entries[j].client]
\* sequence q lists the members of set S, each once
ListsOnce(q, S) ==
  /\ {q[j] : j \in 1..Len(q)} = S
  /\ \A j, k \in 1..Len(q) : q[j] = q[k] => j = k

\* C9: HTTPSet.Request returns one response for each dispatched client whose
\* request succeeded and an error that is nil iff every dispatched client
\* succeeded; a non-nil error has exactly one entry per failed client, tagged
\* with that client's index, beside the responses of the others.
C9_OneResponsePerSuccess ==
  \A s \in SetCallers :
    sc[s].pc = "done" =>
      LET D == Dispatched(s)
          ret == sc[s].ret IN
      /\ ListsOnce(ret.resps, {i \in D : Succeeded(i)})
      /\ ret.err.isNil <=> \A i \in D : Succeeded(i)
      /\ ListsOnce(ClientsOf(ret.err.errs), {i \in D : Failed(i)})

\* C10: after HTTPSet.Request returns with its context not cancelled, every
\* client it dispatched to is in the broken set iff its request failed, and
\* the membership of every client it did not dispatch to is what it was.
C10_BrokenTracksOutcome ==
  \A s \in SetCallers :
    (sc[s].pc = "done" /\ ~ctxDone[SetCtx(s)]) =>
      \A i \in 0..(sc[s].n - 1) :
        IF i \in Dispatched(s)
        THEN (Succeeded(i) \/ Failed(i)) /\ (i \in broken <=> Failed(i))
        ELSE i \in broken <=> i \in sc[s].before

\* a call on the view returned: one broken client recovered and left the
\* set, one failed again and stayed, one working client was not dispatched
C10_Witness ==
  \E s \in SetCallers :
    /\ sc[s].pc = "done" /\ ~ctxDone[SetCtx(s)] /\ sc[s].useBroken
    /\ \E i, j \in Dispatched(s) : Succeeded(i) /\ i \notin broken /\ Failed(j) /\ j \in broken
    /\ \E k \in 0..(sc[s].n - 1) : k \notin Dispatched(s) /\ k \notin broken

\* the future of client i in the call of caller s is started in this step
Launches(s, i) == rq[UnitOf(s, i)].pc = "idle" /\ rq'[UnitOf(s, i)].pc /= "idle"

\* C11: HTTPSet.Request dispatches to a client only if its index passes the
\* mode filter at launch: the set contacts only clients not in broken, a
\* UseBroken view only clients in broken, and the transport of no other
\* client is invoked by the call.
C11_OnlyFilteredDispatched ==
  [][\A s \in SetCallers : \A i \in 0..(MaxClients - 1) :
       UnitOf(s, i) \in UnitsOf(s) =>
         /\ Launches(s, i) => /\ sc[s].pc = "launch" /\ sc[s].i = i
                               /\ sc[s].useBroken <=> i \in broken
                               /\ i \in Dispatched(s)'
         /\ rq'[UnitOf(s, i)].calls > 0 => i \in Dispatched(s)']_vars

\* a call on the view invoked the transport of a broken client and left a
\* working one alone
C11_Witness ==
  \E s \in SetCallers :
    /\ sc[s].useBroken /\ sc[s].pc \in {"await", "done"}
    /\ \E i \in Dispatched(s) : rq[Unit(i)].calls > 0 /\ i \in sc[s].before
    /\ \E k \in 0..(sc[s].n - 1) :
         k \notin Dispatched(s) /\ k \notin sc[s].before /\ rq[Unit(k)].pc = "idle"

\* C12: UseBroken() returns (nil, false) exactly when the broken set is
\* empty at the call and otherwise (view, true) with the view in useBroken
\* mode; it changes neither the broken set nor the client list.
C12_UseBrokenSignal ==
  [][(~ubRet.called /\ ubRet'.called) =>
       /\ broken = {} => (ubRet'.isNil /\ ~ubRet'.ok)
       /\ broken /= {} => (~ubRet'.isNil /\ ubRet'.ok /\ ubRet'.useBroken)
       /\ broken' = broken
       /\ clients' = clients]_vars

\* UseBroken gave a view before and now, the broken set emptied, gives nil
C12_Witness == hasView /\ ubRet.called /\ ubRet.isNil /\ ~ubRet.ok /\ broken = {}

(***************************************************************************)
(* Claims about cancellation in the retry executor, checked under          *)
(* SpecRetry.                                                              *)
(***************************************************************************)
\* C13: a Request whose context is cancelled during a backoff wait returns
\* an error without another transport invocation, and that error aggregates
\* every transport error observed so far in the run, the error of the
\* initial dispatch included.
C13_CancelReturnsAllErrors ==
  \A p \in Procs :
    (Done(p) /\ rq[p].res.tag = "canceled") =>
      /\ rq[p].calls = Len(rq[p].seen)
      /\ rq[p].res.errs = rq[p].seen

\* C14: once the caller's context has been cancelled, the retry executor
\* starts no new transport attempt, whatever the timing of the cancellation
\* and the backoff timer.
C14_NoAttemptAfterCancel ==
  [][\A p \in Procs :
       (rq[p].pc = "wait" /\ ctxDone[rq[p].ctx]) => rq'[p].calls = rq[p].calls]_vars

(***************************************************************************)
(* Further claims about the breaker, checked under SpecCB.                 *)
(***************************************************************************)
\* goroutine p runs a Request under a breaker it has looked up or created
UnderBreaker(p) ==
  /\ rq[p].pc \in {"before", "dispatch", "wait"}
  /\ clients[rq[p].cli + 1].enableCB

\* goroutine p takes the step in which request() returns
Finishes(p) == rq[p].pc \in {"dispatch", "wait"} /\ rq'[p].pc = "done"

\* C18: the breaker counts one Request call, the initial dispatch and all of
\* its retries, as a single success or failure: a Request that fails first
\* and succeeds on a retry is recorded as a success, one that exhausts its
\* attempts adds exactly one to the consecutive-failure counter.
C18_OneCallOneCount ==
  [][\A p \in CBProcs :
       /\ (rq[p].pc \in {"dispatch", "wait"} /\ rq'[p].pc = "wait"
             /\ rq'[p].calls > rq[p].calls)
            => breakers' = breakers
       /\ (Finishes(p) /\ breakers[rq[p].cb].state = "closed"
                       /\ breakers[rq[p].cb].generation = rq[p].gen) =>
            LET b == breakers[rq[p].cb]
                b2 == breakers'[rq[p].cb] IN
            IF rq'[p].res.tag = "ok"
            THEN /\ b2.state = "closed"
                 /\ b2.counts.ConsecutiveFailures = 0
                 /\ b2.counts.ConsecutiveSuccesses = b.counts.ConsecutiveSuccesses + 1
            ELSE \/ /\ b2.state = "closed"
                    /\ b2.counts.ConsecutiveFailures = b.counts.ConsecutiveFailures + 1
                 \/ /\ b2.state = "open"
                    /\ b.counts.ConsecutiveFailures + 1 >= clients[rq[p].cli + 1].cbFailures]_vars

\* a Request failed on its first dispatch, succeeded on the retry, and left
\* its closed breaker with no consecutive failure
C18_Witness ==
  \E p \in CBProcs :
    /\ Done(p) /\ rq[p].res.tag = "ok" /\ Len(rq[p].seen) >= 1 /\ rq[p].calls = 2
    /\ breakers[rq[p].cb].state = "closed"
    /\ breakers[rq[p].cb].counts.ConsecutiveFailures = 0
    /\ breakers[rq[p].cb].counts.ConsecutiveSuccesses >= 1

C15_OneBreakerPerURL ==
  \A p \in Procs :
    UnderBreaker(p) =>
      /\ rq[p].cb = clients[rq[p].cli + 1].cbs[BreakerKey(rq[p].url)]
      /\ \A q \in Procs :
           (UnderBreaker(q) /\ rq[q].cli = rq[p].cli /\ rq[q].url = rq[p].url)
             => rq[q].cb = rq[p].cb

(***************************************************************************)
(* Claims about shared state and about the backoff.                        *)
(***************************************************************************)
\* C20: with circuit breaking disabled in the configuration, Request runs
\* the retry executor directly: whatever the failure history no Request is
\* rejected without invoking the transport, and no breaker is created.
\* Checked under SpecSet, whose clients have no breaker.
C20_NoBreakerWhenDisabled ==
  /\ breakers = << >>
  /\ \A c \in 1..Len(clients) :
       ~clients[c].enableCB => \A u \in URLs : clients[c].cbs[u] = NoCB
  /\ \A p \in Procs :
       ~clients[rq[p].cli + 1].enableCB =>
         /\ rq[p].pc \notin {"create", "before"}
         /\ rq[p].cb = NoCB
         /\ Done(p) => (rq[p].calls >= 1 /\ rq[p].res.tag \notin {"open", "toomany"})

\* a client that failed in an earlier call, and fails again in a call on the
\* view, had its transport invoked for every attempt
C20_Witness ==
  \E s \in SetCallers : \E i \in Dispatched(s) :
    /\ sc[s].useBroken /\ i \in sc[s].before
    /\ ~clients[i + 1].enableCB
    /\ Done(Unit(i)) /\ rq[Unit(i)].res.tag = "exhausted" /\ rq[Unit(i)].calls = 2

\* C16: the concurrent units of one HTTPSet.Request share no mutable state
\* but the broken set and the breaker registry: no two units write to the
\* same object, the caller's Result sink included.  Checked under SpecSet.
C16_UnitsShareNothing ==
  \A i, j \in 0..(MaxClients - 1) :
    (i /= j /\ rq[Unit(i)].wrote /= 0) => rq[Unit(i)].wrote /= rq[Unit(j)].wrote

\* C17: every backoff wait of the retry executor lies between the effective
\* minimum and the effective maximum wait, for every attempt and every pair
\* of wait times the executor can pass.  Checked under SpecSleep.
C17_SleepWithinBounds ==
  \A p \in Procs :
    rq[p].pc = "wait" => (rq[p].wmin <= rq[p].sleep /\ rq[p].sleep <= rq[p].wmax)

(***************************************************************************)
(* Claims about DeleteBroken, checked under SpecDel.                       *)
(***************************************************************************)
\* the indices a DeleteBroken was given
Given(d) == {d.indxs[j] : j \in 1..Len(d.indxs)}

\* C21: DeleteBroken removes exactly the indices given from the broken set
\* and leaves the membership of every other index as it was (nothing happens
\* for an index that is no member, or that is given twice); the next Request
\* on the set dispatches to the cleared clients again.  Every round of its
\* loop removes the one index it was given and nothing else; when no
\* fan-out ran beside the call, the broken set at its return is the one at
\* the call without the indices given, and the Request on the set that
\* follows has dispatched to every cleared client.
C21_DeleteBrokenClears ==
  [][ /\ (del.stage = "clearing" /\ (del'.i /= del.i \/ del'.stage /= "clearing")) =>
           broken' = broken \ {del.indxs[del.i + 1]}
      /\ (del'.stage = "cleared" /\ del'.alone) =>
           /\ GetBroken(broken').values = del'.before \ Given(del')
           /\ GetBroken(broken').isNil <=> del'.before \subseteq Given(del')
      /\ \A s \in SetCallers :
           (del'.stage = "next" /\ del'.alone /\ ~sc'[s].useBroken
              /\ sc'[s].pc \in {"await", "done"}) =>
             \A i \in Given(del') : i < sc'[s].n => i \in Dispatched(s)' ]_vars

\* DeleteBroken(0, 2) on a set of two clients, both broken: client 0 was
\* cleared, 2 was no member, and the Request that followed went to client 0
\* and left client 1, still broken, alone
C21_Witness ==
  \E s \in SetCallers :
    /\ del.stage = "next" /\ del.alone /\ del.indxs = <<0, 2>> /\ del.before = {0, 1}
    /\ ~sc[s].useBroken /\ sc[s].pc = "done"
    /\ sc[s].before = {1}
    /\ Dispatched(s) = {0}
    /\ rq[Unit(0)].calls = 1
    /\ 1 \in broken

(***************************************************************************)
(* Claims about Add and the client list, checked under SpecAdd.            *)
(***************************************************************************)
\* an Add returns in this step
AddReturns == addRet'.called /\ addRet' /= addRet
\* list q begins with list r
BeginsWith(q, r) == Len(r) <= Len(q) /\ \A i \in 1..Len(r) : q[i] = r[i]

\* C22: an Add that fails at some configuration reports the ordinal of that
\* configuration and corrupts no index: every client listed before the call,
\* by the set or by its view, keeps its index, the clients appended before
\* the failure follow, and so every index of the broken set still refers to
\* the client it referred to.
C22_FailedAddKeepsIndices ==
  [][(AddReturns /\ ~addRet'.isNil) =>
       LET cfgs == addRet'.cfgs
           at == addRet'.at IN
       /\ at \in 0..(Len(cfgs) - 1)
       /\ NewWithConfig(cfgs[at + 1]).err /= "nil"
       /\ \A j \in 1..at : NewWithConfig(cfgs[j]).err = "nil"
       /\ BeginsWith(clients', clients)
       /\ BeginsWith(view'.clients, view.clients)
       /\ LET after == IF addRet'.onView THEN view'.clients ELSE clients' IN
          /\ Len(after) = addRet'.n + at
          /\ \A j \in 1..at : after[addRet'.n + j] = NewWithConfig(cfgs[j]).cli
       /\ \A i \in broken : clients'[i + 1] = clients[i + 1]]_vars

(***************************************************************************)
(* Claims about Send, checked under SpecSend.                              *)
(***************************************************************************)
\* HTTPSet.Request as a function of the mode, the broken set b at the call
\* and the outcome failed[i + 1] of each of n clients: the await loop from
\* client i on, over the futures fs that the launch loop made
RECURSIVE RequestAwait(_, _, _, _)
RequestAwait(acc, fs, failed, i) ==
  IF i = Len(fs) THEN acc
  ELSE IF ~fs[i + 1] THEN RequestAwait(acc, fs, failed, i + 1)
  ELSE RequestAwait(
         [broken |-> Mark(acc.broken, i, failed[i + 1]),
          errs |-> IF failed[i + 1] THEN Append(acc.errs, i) ELSE acc.errs,
          resps |-> IF failed[i + 1] THEN acc.resps ELSE Append(acc.resps, i)],
         fs, failed, i + 1)
RequestEffect(useBroken, b, n, failed) ==
  RequestAwait([broken |-> b, errs |-> <<>>, resps |-> <<>>],
               [j \in 1..n |-> ~Skipped(useBroken, (j - 1) \in b)], failed, 0)

\* C23: Send applies the mode filter and the broken-set update of Request:
\* from the same broken set and the same outcome of every client, a Send
\* leaves the broken set that a Request leaves and reports failures for the
\* same indices, and it returns the error alone.
C23_SendTracksLikeRequest ==
  \A s \in SetCallers :
    sc[s].pc = "done" =>
      LET call == sc[s]
          failed == [j \in 1..call.n |->
                       rq[Unit(j - 1)].pc = "done" /\ rq[Unit(j - 1)].res.tag /= "ok"]
          want == RequestEffect(call.useBroken, call.before, call.n, failed) IN
      /\ broken = want.broken
      /\ ClientsOf(call.ret.err.errs) = want.errs
      /\ call.ret.err.isNil <=> want.errs = <<>>
      /\ call.ret.resps = IF call.send THEN <<>> ELSE want.resps

\* a Send on the view of a set with both clients broken: client 0 took the
\* body, posted to its address, and left the broken set, client 1 failed
\* again and is reported
C23_Witness ==
  \E s \in SetCallers :
    /\ sc[s].pc = "done" /\ sc[s].send /\ sc[s].useBroken
    /\ sc[s].before = {0, 1}
    /\ Succeeded(0) /\ Failed(1)
    /\ rq[Unit(0)].url = U_full /\ rq[Unit(0)].opts.Method = "POST"
    /\ rq[Unit(0)].body = sc[s].requestBody /\ rq[Unit(0)].body /= 0
    /\ broken = {1}
    /\ ClientsOf(sc[s].ret.err.errs) = <<1>>

(***************************************************************************)
(* Claims about the attribution of results, checked under SpecSet.         *)
(***************************************************************************)
\* sequence q of indices ascends
Ascends(q) == \A j, k \in 1..Len(q) : j < k => q[j] < q[k]

\* C24: whatever the order in which the units of a fan-out complete, every
\* error entry carries the index of the client whose request produced that
\* error, every change of the broken set is the outcome of the client at
\* that index, and the responses are in ascending order of client index.
C24_AttributedByIndex ==
  \A s \in SetCallers :
    sc[s].pc = "done" =>
      LET ret == sc[s].ret IN
      /\ \A j \in 1..Len(ret.err.errs) :
           LET e == ret.err.errs[j] IN
           /\ e.client \in Dispatched(s)
           /\ Failed(e.client)
           /\ rq[Unit(e.client)].res.tag = e.err
      /\ \A j \in 1..Len(ret.resps) :
           ret.resps[j] \in Dispatched(s) /\ Succeeded(ret.resps[j])
      /\ Ascends(ret.resps)
      /\ Ascends(ClientsOf(ret.err.errs))
      /\ \A i \in 0..(sc[s].n - 1) :
           (i \in broken) /= (i \in sc[s].before) =>
             /\ i \in Dispatched(s)
             /\ i \in broken <=> Failed(i)

(***************************************************************************)
(* Claims about what a Request does with the errors it meets and how many  *)
(* times it retries.                                                       *)
(***************************************************************************)
\* the errors of the list errs
Among(errs) == {errs[j] : j \in 1..Len(errs)}

\* C25: no error is silently dropped: every transport failure inside one
\* Request is followed by a retry attempt or is in the error returned to
\* the caller, for every RetryCount >= 0, with or without cancellation.
\* The failures of a run are seen[1..Len(seen)]; a failure is followed by a
\* retry when another invocation came after it.
C25_NoErrorDropped ==
  \A p \in Procs :
    Done(p) =>
      \A j \in 1..Len(rq[p].seen) :
        \/ j < rq[p].calls
        \/ rq[p].seen[j] \in Among(rq[p].res.errs)

\* C26: RetryCount is the number of times the request is retried: with
\* RetryCount = N >= 1, InfiniteRetry unset and a transport that always
\* fails, the initial dispatch is followed by exactly N retry attempts
\* before the Request gives up (the context not cancelled, the failures
\* retryable).
C26_NRetries ==
  \A p \in Procs :
    ( /\ Done(p)
      /\ rq[p].plan.fails = Always
      /\ rq[p].opts.RetryCount >= 1
      /\ ~rq[p].opts.InfiniteRetry
      /\ ~ctxDone[rq[p].ctx]
      /\ (rq[p].opts.RetryOnlyServerErrors => IsServerError(rq[p].seen[1])) )
    => rq[p].calls - 1 = rq[p].opts.RetryCount

\* an InfiniteRetry run that nothing but a success or a cancellation stops:
\* its transport succeeds after finitely many failures, and the switch after
\* the first dispatch does not end it (RetryOnlyServerErrors is unset, or the
\* run is already in its retry loop)
RetriesForever(run) ==
  /\ run.opts.InfiniteRetry
  /\ run.plan.fails /= Always
  /\ \/ run.pc = "wait"
     \/ run.pc = "dispatch" /\ ~run.opts.RetryOnlyServerErrors

\* the context of a run has been cancelled
CtxCanceled(run) == IF run.pc = "idle" THEN FALSE ELSE ctxDone[run.ctx]

\* C27 as stated: with InfiniteRetry set and the context not cancelled the
\* Request keeps retrying until an attempt succeeds, whatever RetryCount: it
\* returns nothing but a success.
C27_AsStated ==
  \A p \in Procs :
    (Done(p) /\ rq[p].opts.InfiniteRetry /\ ~ctxDone[rq[p].ctx])
    => rq[p].res.tag = "ok"

\* C27 (amended): with InfiniteRetry set and the context not cancelled the
\* Request never returns a retry-exhausted error; provided
\* RetryOnlyServerErrors is unset or the first failure is classified as a
\* server error it returns nothing but a success, whatever RetryCount, every
\* failure before it retried; and if the transport eventually succeeds the
\* Request eventually returns that success, unless the context is cancelled.
C27_RetriesUntilSuccess ==
  /\ [](\A p \in Procs :
          (Done(p) /\ rq[p].opts.InfiniteRetry /\ ~ctxDone[rq[p].ctx]) =>
            /\ rq[p].res.tag /= "exhausted"
            /\ (rq[p].opts.RetryOnlyServerErrors /\ rq[p].seen /= <<>>
                  => IsServerError(rq[p].seen[1]))
               => /\ rq[p].res.tag = "ok"
                  /\ rq[p].calls = Len(rq[p].seen) + 1
                  /\ rq[p].plan.fails = Len(rq[p].seen))
  /\ \A p \in Procs :
       RetriesForever(rq[p])
         ~> (CtxCanceled(rq[p]) \/ (Done(p) /\ rq[p].res.tag = "ok"))

C27_Witness ==
  \E p \in Procs :
    /\ Done(p) /\ rq[p].opts.InfiniteRetry /\ rq[p].opts.RetryCount = 1
    /\ rq[p].opts.RetryOnlyServerErrors /\ ~ctxDone[rq[p].ctx]
    /\ rq[p].plan.fails = MaxFail /\ rq[p].seen[1] = "e500" /\ rq[p].seen[2] = "e400"
    /\ rq[p].calls = MaxFail + 1 /\ rq[p].res.tag = "ok"

(***************************************************************************)
(* Claims about what the set and its UseBroken view share.                 *)
(***************************************************************************)
\* C28: the aggregator returned by UseBroken() shares its parent's broken
\* set and client list: a change made through one of them is observed
\* through the other.  The broken set is the one object both point to; the
\* client lists are two slices, so the claim is that once a view exists the
\* set and the view list the same clients, whatever Add has appended through
\* either.
C28_ViewSharesClients == hasView => Clients(TRUE) = Clients(FALSE)

\* C29: after any sequence of non-overlapping Request calls on the set and
\* its UseBroken views, index i is in the broken set iff the most recent
\* request dispatched to client i failed, and an index never dispatched to
\* is not in the set.  hist[i] is how the most recent request dispatched to
\* i ended; no DeleteBroken is called and no context is cancelled.  Checked
\* under SpecHist.
C29_BrokenIsLastOutcome ==
  (\A s \in SetCallers : sc[s].pc \in {"idle", "done"}) =>
    \A i \in DOMAIN hist : i \in broken <=> hist[i] = "failed"

C29_Witness ==
  /\ sc[1].pc = "done" /\ sc[1].useBroken /\ sc[1].before = {0, 1}
  /\ del.stage = "none"
  /\ hist[0] = "ok" /\ hist[1] = "failed"
  /\ broken = {1}

(***************************************************************************)
(* Claims about the default wait times, checked under SpecSleep.           *)
(***************************************************************************)
\* time.Second in milliseconds, and the defaults the comments of
\* RequestOpts and the README give: "100 milliseconds" and "2 seconds"
Second == 1000
documentedWaitTimeMs == 100
documentedMaxWaitTime == 2

\* C30: when RetryWaitTime is unset the initial backoff wait defaults to
\* 100 milliseconds, and when RetryMaxWaitTime is unset the maximum backoff
\* wait defaults to 2 seconds.  wmin and wmax are the executor's effective
\* wait times, in seconds.
C30_DocumentedDefaults ==
  \A p \in Procs :
    rq[p].pc = "wait" =>
      /\ rq[p].opts.RetryWaitTime = 0 => rq[p].wmin * Second = documentedWaitTimeMs
      /\ rq[p].opts.RetryMaxWaitTime = 0 => rq[p].wmax = documentedMaxWaitTime

(***************************************************************************)
(* Claims about the server-error classifier, checked under SpecRetry on    *)
(* every error a run has met.                                              *)
(***************************************************************************)
\* C31: IsServerError(err) is true exactly when err is non-nil and stems
\* from a response with a 5xx status code: false for nil, for every error of
\* a 4xx response whatever its message text, and for a failure of the
\* network.
C31_ServerErrorIs5xx ==
  /\ ~IsServerError("nil")
  /\ \A p \in Procs :
       \A j \in 1..Len(rq[p].seen) :
         IsServerError(rq[p].seen[j]) <=> StatusOf(rq[p].seen[j]) \in 500..599

(***************************************************************************)
(* Claims about the registry key, checked under SpecKey.                   *)
(***************************************************************************)
\* the target the client of the breaker specifications resolves u to
Resolved(u) == prepareURL(clients[1].baseURL, u)

\* C32: the registry key is the resolved URL: two Requests on one client
\* whose url arguments resolve to the same target are governed by the same
\* breaker: the registry holds one breaker for them, and every run to the
\* target executes under it.
C32_KeyIsResolvedURL ==
  /\ \A u, w \in Keys :
       (Resolved(u) = Resolved(w) /\ clients[1].cbs[u] /= NoCB /\ clients[1].cbs[w] /= NoCB)
         => clients[1].cbs[u] = clients[1].cbs[w]
  /\ \A p \in Procs, w \in Keys :
       (UnderBreaker(p) /\ rq[p].pc /= "before" /\ Resolved(w) = Resolved(rq[p].url)
          /\ clients[1].cbs[w] /= NoCB)
         => rq[p].cb = clients[1].cbs[w]

(***************************************************************************)
(* Claims about the await of the aggregator, checked under SpecSet.        *)
(***************************************************************************)
\* the clients an error list names
Named(errs) == {errs[j].client : j \in 1..Len(errs)}

\* C33: if the context is not cancelled, HTTPSet.Request returns only after
\* every unit it launched has completed: at the return no launched unit is
\* still running, and the result of each is among the responses or in the
\* error.
C33_ReturnsAfterAllUnits ==
  \A s \in SetCallers :
    (sc[s].pc = "done" /\ ~ctxDone[SetCtx(s)]) =>
      \A i \in Dispatched(s) :
        /\ rq[Unit(i)].pc = "done"
        /\ Succeeded(i) => i \in {sc[s].ret.resps[j] : j \in 1..Len(sc[s].ret.resps)}
        /\ Failed(i) => i \in Named(sc[s].ret.err.errs)

\* a call returned with its context alive: three units, the first the last
\* to complete, after two backoff waits
C33_Witness ==
  \E s \in SetCallers :
    /\ sc[s].pc = "done" /\ ~ctxDone[SetCtx(s)]
    /\ Dispatched(s) = {0, 1, 2}
    /\ Failed(0) /\ rq[Unit(0)].calls = 2 /\ rq[Unit(0)].res.tag = "exhausted"
    /\ Succeeded(1) /\ Failed(2)
    /\ sc[s].ret.resps = <<1>> /\ Named(sc[s].ret.err.errs) = {0, 2}

\* C34: HTTPSet.Request adds an index to the broken set, and reports it as
\* failed, only if that client's own request returned an error: a unit that
\* completed successfully, or that is still running when the context is
\* cancelled during the await, is not marked broken, and a completed success
\* is still in the response list.
C34_MarkedOnlyOnOwnError ==
  \A s \in SetCallers :
    sc[s].pc = "done" =>
      \A i \in Dispatched(s) :
        /\ i \in Named(sc[s].ret.err.errs) => Failed(i)
        /\ (i \in broken /\ i \notin sc[s].before) => Failed(i)
        /\ Succeeded(i) =>
             /\ i \in {sc[s].ret.resps[j] : j \in 1..Len(sc[s].ret.resps)}
             /\ i \notin broken

(***************************************************************************)
(* Claims about overlapping calls, checked under SpecOverlap.              *)
(***************************************************************************)
\* C35: when two HTTPSet.Request calls on one aggregator overlap, once both
\* have returned index i is in the broken set iff the request to client i
\* that completed last failed.  hist[i] is how the request to client i that
\* completed last ended.
C35_LastCompletedWins ==
  (\A s \in SetCallers : sc[s].pc = "done") =>
    \A i \in DOMAIN hist :
      hist[i] \in {"ok", "failed"} => (i \in broken <=> hist[i] = "failed")

(***************************************************************************)
(* Claims about cancellation, checked under SpecCancelLive and SpecCB.     *)
(***************************************************************************)
\* C36: after the caller's context is cancelled, every Request in progress
\* eventually returns, also with InfiniteRetry set and a transport that
\* always fails, each invocation of the transport returning.
C36_ReturnsAfterCancel ==
  \A p \in Procs :
    (InProgress(p) /\ CtxCanceled(rq[p])) ~> Done(p)

C36_Witness ==
  \E p \in Procs :
    /\ Done(p) /\ ctxDone[rq[p].ctx] /\ rq[p].res.tag = "canceled"
    /\ rq[p].opts.InfiniteRetry /\ rq[p].plan.fails = Always
    /\ rq[p].calls = 2

\* C37: a Request that ends because its context was cancelled during a
\* backoff wait is recorded by the breaker as a failure like any other: the
\* closed breaker counts it or opens, and after F such Requests in a row to
\* one URL the next Request to it, made before the timeout has elapsed, is
\* rejected without invoking the transport.  Under SpecCBCancel a Request
\* fails only by cancellation, so streak counts the cancelled ones.
C37_CancelCountsAsFailure ==
  [][\A p \in Procs :
       /\ (Finishes(p) /\ rq'[p].res.tag = "canceled"
             /\ breakers[rq[p].cb].state = "closed"
             /\ breakers[rq[p].cb].generation = rq[p].gen) =>
            LET b == breakers[rq[p].cb]
                b2 == breakers'[rq[p].cb] IN
            \/ /\ b2.state = "closed"
               /\ b2.counts.ConsecutiveFailures = b.counts.ConsecutiveFailures + 1
               /\ b2.counts.ConsecutiveFailures < clients[rq[p].cli + 1].cbFailures
            \/ /\ b2.state = "open"
               /\ b.counts.ConsecutiveFailures + 1 = clients[rq[p].cli + 1].cbFailures
       /\ Finishes(p) => rq'[p].res.tag \in {"ok", "canceled"}
       /\ (Decides(p) /\ streak[rq[p].url] >= clients[rq[p].cli + 1].cbFailures
             /\ ~breakers[rq[p].cb].expired)
            => Rejected(rq'[p], "open")]_vars

\* with F = 2: two Requests to one URL were cancelled during their backoff
\* wait, and the third was rejected by the open breaker
C37_Witness ==
  /\ clients[1].cbFailures = 2 /\ started = 3
  /\ Rejected(rq[1], "open") /\ rq[1].url = U_error
  /\ streak[U_error] = 3 /\ U_ok \notin everFailed
  /\ breakers[rq[1].cb].state = "open" /\ ~breakers[rq[1].cb].expired

(***************************************************************************)
(* Claims about the indices of the broken set, checked under SpecAdd.      *)
(***************************************************************************)
\* C38: in every reachable state the broken set contains only valid client
\* indices: each member i satisfies 0 <= i < number of clients of the
\* aggregator, for the set and for the UseBroken view that holds the same
\* broken set.
C38_BrokenIndicesValid ==
  \A i \in broken :
    /\ 0 <= i
    /\ i < Len(Clients(FALSE))
    /\ hasView => i < Len(Clients(TRUE))

\* no client has passed the mode filter in the launch loop of caller s: fs
\* holds only nils (the set has no clients, or every round met its client
\* broken and the call is on the set, or working and the call is on a view)
NoneSelected(s) ==
  /\ sc[s].pc \in {"await", "done"}
  /\ \A i \in 0..(sc[s].n - 1) : sc[s].fs[i + 1] = 0

\* C39: when no client passes the mode filter, HTTPSet.Request invokes no
\* transport, leaves the broken set unchanged and returns an empty response
\* list with a nil error.  Checked under SpecFilter: a round of the launch
\* loop whose client fails the filter starts nothing, no step of a call
\* that started nothing changes the broken set, and at the step in which
\* such a call returns no unit of it has run.
C39_NothingSelected ==
  [][\A s \in SetCallers :
       /\ (sc[s].pc = "launch" /\ sc'[s] /= sc[s]
             /\ (sc[s].useBroken <=> sc[s].i \notin broken)) =>
            /\ sc'[s].fs[sc[s].i + 1] = 0
            /\ rq'[UnitOf(s, sc[s].i)].pc = "idle"
       /\ (sc'[s] /= sc[s] /\ NoneSelected(s)') => broken' = broken
       /\ (sc[s].pc /= "done" /\ sc'[s].pc = "done" /\ NoneSelected(s)') =>
            /\ \A p \in UnitsOf(s) : rq'[p].pc = "idle" /\ rq'[p].calls = 0
            /\ sc'[s].ret.resps = <<>>
            /\ sc'[s].ret.err.isNil]_vars

\* a call on a view of two clients found the broken set empty
C39_Witness ==
  \E s \in SetCallers :
    /\ sc[s].pc = "done" /\ sc[s].useBroken /\ sc[s].n = 2 /\ sc[s].before = {}
    /\ NoneSelected(s) /\ sc[s].ret.resps = <<>> /\ sc[s].ret.err.isNil

\* C40: HTTPSet.Get and HTTPSet.GetQ forward the caller's responseBody to
\* every client as the response sink (RequestOpts.Result) and send no
\* request body, exactly as HTTP.Get and HTTP.GetQ do: the options of the
\* call are those of the client's helper, and no unit of the call hands a
\* body to its transport.  Checked under SpecGet.
C40_SetGetAsClientGet ==
  [][ /\ \A responseBody \in Variadics :
           SetGet(1, FALSE, U_ok, responseBody) =>
             /\ sc'[1].opts.Result = First(responseBody)
             /\ sc'[1].opts.Body = 0
      /\ \A responseBody \in 0..2 :
           SetGetQ(1, FALSE, U_ok, responseBody) =>
             /\ sc'[1].opts.Result = responseBody
             /\ sc'[1].opts.Body = 0
      /\ \A p \in UnitsOf(1) : rq'[p].calls > 0 => rq'[p].body = 0 ]_vars

============================================================================
